---- MODULE Spec2Model ----
(***************************************************************************)
(* zaw: host (TypeScript) / module (Zig) interop over one linear memory.   *)
(*                                                                         *)
(*  - conduit.ts  : Channel / Writer / Reader, the cursor codec            *)
(*  - interop.ts  : createInstance, createView, handleError, getInput,     *)
(*                  getOutput, bind                                        *)
(*  - binding.ts  : generateBinding (the bound operation)                  *)
(*  - interop.zig : module-side allocate*Channel, getInput / getOutput      *)
(*  - log.zig     : the module's log buffer and log()                      *)
(*                                                                         *)
(* Specifications over the same variables:                                 *)
(*   SpecConduit : one Writer and one Reader over the same byte region     *)
(*   SpecRound   : a script of writes, then the same script of reads       *)
(*   Spec        : createInstance, the memory and a caller's view          *)
(*   SpecChan    : the channels of one Instance, host and module side      *)
(*   SpecCall    : handleError and the bound operation                     *)
(*   SpecLog     : the log hook and the two side buffers                   *)
(*   SpecBoot    : createInstance with the imports of a caller             *)
(*   SpecAlloc   : the module's channel storage                            *)
(***************************************************************************)
EXTENDS Integers, Sequences, FiniteSets, TLC

(***************************************************************************)
(* Bounds of the model.                                                    *)
(***************************************************************************)
\* capacity of the codec's channel, in 8-byte words (Channel asserts % 8)
CapWords == 2
\* number of codec operations in one run of SpecConduit
MaxOps == 2
\* longest array handed to an init*/copy*/read* operation
MaxArr == 3
\* bytes of the ArrayBuffer that lie after the channel's region
Guard == 8

(***************************************************************************)
(* Numbers.  Cursors, lengths and 32-bit values of the model stay within   *)
(* 0 .. 2^31 - 1, where the int32 operators (&, ~, >>>) of the source act  *)
(* as ordinary arithmetic.  A 64-bit element is carried as the pair        *)
(* <<low 32 bits, high 32 bits>> of the bit pattern the typed array holds. *)
(***************************************************************************)
alignUpNext(x, bytes) == ((x \div bytes) + 1) * bytes

alignUpDown(x, bytes) == x - (x % bytes)

\* (x + mask) & ~mask: clear the low bits of x + mask
alignUp(x, bytes) ==
  LET mask == bytes - 1
      y == x + mask
  IN  y - (y % bytes)

(***************************************************************************)
(* Typed-array stores and loads on a byte region mem : 0..n-1 -> 0..255.   *)
(* An index outside the view is ignored by a store and loads undefined     *)
(* (here -1).  Multi-byte elements are little-endian.                      *)
(***************************************************************************)
ByteOf(value, k) == (value \div (256 ^ k)) % 256

\* byte k of an element `width` bytes wide
ElemByte(value, width, k) ==
  IF width = 8 THEN ByteOf(value[(k \div 4) + 1], k % 4) ELSE ByteOf(value, k)

RECURSIVE leValue(_, _, _)
leValue(mem, at, width) ==
  IF width = 0 THEN 0 ELSE mem[at] + 256 * leValue(mem, at + 1, width - 1)

\* the element `width` bytes wide held at byte `at`
ElemAt(mem, at, width) ==
  IF width = 8 THEN <<leValue(mem, at, 4), leValue(mem, at + 4, 4)>>
  ELSE leValue(mem, at, width)

\* view[index] = value, for a view of elements `width` bytes wide over `len` bytes
storeElement(mem, len, width, index, value) ==
  IF index < 0 \/ (index + 1) * width > len THEN mem
  ELSE [a \in DOMAIN mem |->
          IF a >= index * width /\ a < (index + 1) * width
          THEN ElemByte(value, width, a - index * width)
          ELSE mem[a]]

\* view[index]
loadElement(mem, len, width, index) ==
  IF index < 0 \/ (index + 1) * width > len THEN -1
  ELSE ElemAt(mem, index * width, width)

\* view.set(arr, start), called with the elements already known to fit
setElements(mem, len, width, start, arr) ==
  [a \in DOMAIN mem |->
     IF a >= start * width /\ a < (start + Len(arr)) * width
     THEN ElemByte(arr[((a - start * width) \div width) + 1], width,
                   (a - start * width) % width)
     ELSE mem[a]]

\* view.subarray(start, start + length), as the sequence of its elements
subarray(mem, len, width, start, length) ==
  [i \in 1..length |-> loadElement(mem, len, width, start + i - 1)]

(***************************************************************************)
(* Element types.  What a typed array stores for a number, and the number  *)
(* it gives back.  Uint8 keeps the number modulo 256 (ByteOf); Int32 reads  *)
(* its four bytes as two's complement; Float32 rounds the number to the    *)
(* nearest float32 and stores its IEEE-754 bits; Float64 holds every       *)
(* number of the language exactly.  The numbers of the model are whole:    *)
(* Uint32 within 0 .. 2^31 - 1, Int32 within -2^31 .. 2^31 - 1, Float32    *)
(* within 0 .. 2^25.                                                       *)
(***************************************************************************)
Types == {"Uint8", "Uint32", "Int32", "Float32", "Float64"}

\* BYTES_PER_ELEMENT
WidthOf(T) == IF T = "Uint8" THEN 1 ELSE IF T = "Float64" THEN 8 ELSE 4

\* floor(log2(v)), v >= 1
RECURSIVE log2(_)
log2(v) == IF v < 2 THEN 0 ELSE 1 + log2(v \div 2)

\* Math.fround(v): float32 has 24 significant bits; between 2^24 and 2^25 it
\* holds the even numbers, and a tie goes to the even significand
fround(v) ==
  IF v <= 16777216 \/ v % 2 = 0 THEN v
  ELSE LET q == v \div 2 IN IF q % 2 = 0 THEN 2 * q ELSE 2 * (q + 1)

\* the IEEE-754 binary32 bits of a whole number that float32 holds exactly
f32Bits(v) ==
  IF v = 0 THEN 0
  ELSE LET e == log2(v)
       IN  (e + 127) * 8388608
             + (IF e <= 23 THEN (v - 2 ^ e) * 2 ^ (23 - e) ELSE (v - 2 ^ e) \div 2 ^ (e - 23))

\* the number binary32 bits stand for, when it is a whole number of the model;
\* any other float is carried as its bits
f32Value(bits) ==
  LET e == (bits \div 8388608) - 127
      m == bits % 8388608
  IN  IF bits = 0 THEN 0
      ELSE IF e >= 0 /\ e <= 25 /\ (e >= 23 \/ m % 2 ^ (23 - e) = 0)
           THEN 2 ^ e + (IF e <= 23 THEN m \div 2 ^ (23 - e) ELSE m * 2 ^ (e - 23))
           ELSE <<"float32", bits>>

\* what view[i] = v stores, as the value whose bytes ElemByte takes
toBits(T, v) == IF T = "Float32" THEN f32Bits(fround(v)) ELSE v

\* four bytes as a two's complement number
int32At(mem, at) ==
  leValue(mem, at, 3)
    + 16777216 * (IF mem[at + 3] >= 128 THEN mem[at + 3] - 256 ELSE mem[at + 3])

\* the number the element of type T at byte `at` holds
fromBytes(T, mem, at) ==
  CASE T = "Int32" -> int32At(mem, at)
    [] T = "Float32" -> f32Value(leValue(mem, at, 4))
    [] OTHER -> ElemAt(mem, at, WidthOf(T))

\* view[index] on a view of type T
loadTyped(mem, len, T, index) ==
  IF index < 0 \/ (index + 1) * WidthOf(T) > len THEN -1
  ELSE fromBytes(T, mem, index * WidthOf(T))

(***************************************************************************)
(* Channel: ch = [offset |-> cursor, len |-> storageUint8.length].         *)
(* A method that changes the cursor returns the channel it leaves behind.  *)
(***************************************************************************)
Channel(sizeInBytes) == [offset |-> 0, len |-> sizeInBytes]

reset(ch) == [ch EXCEPT !.offset = 0]

offset8(ch) == [ch |-> ch, idx |-> ch.offset]

offset32(ch) ==
  LET a == alignUp(ch.offset, 4)
  IN  [ch |-> [ch EXCEPT !.offset = a], idx |-> a \div 4]

offset64Align4(ch) ==
  LET a == alignUp(ch.offset, 4)
  IN  [ch |-> [ch EXCEPT !.offset = a], idx |-> a \div 8]

offset64(ch) ==
  LET a == alignUp(ch.offset, 8)
  IN  [ch |-> [ch EXCEPT !.offset = a], idx |-> a \div 8]

advance8SetsFirst(ch, count) ==
  LET next == ch.offset + count
  IN  [ch |-> [ch EXCEPT !.offset = next], threw |-> next > ch.len]

advance8Rewinds(ch, count) ==
  LET next == ch.offset + count
  IN  IF next > ch.len THEN [ch |-> reset(ch), threw |-> TRUE]
      ELSE [ch |-> [ch EXCEPT !.offset = next], threw |-> FALSE]

advance8Off(ch, count) ==
  LET next == ch.offset + count
  IN  IF next >= ch.len THEN [ch |-> ch, threw |-> TRUE]
      ELSE [ch |-> [ch EXCEPT !.offset = next], threw |-> FALSE]

\* throws Error('Reached end of channel') and leaves the cursor where it was
advance8(ch, count) ==
  LET next == ch.offset + count
  IN  IF next > ch.len THEN [ch |-> ch, threw |-> TRUE]
      ELSE [ch |-> [ch EXCEPT !.offset = next], threw |-> FALSE]

\* advance8(count * 4); a count beyond the channel's length (a length prefix read
\* from foreign bytes) is past the end whatever the cursor, and is not multiplied
advance32(ch, count) ==
  IF count > ch.len THEN [ch |-> ch, threw |-> TRUE] ELSE advance8(ch, count * 4)

\* advance8(count * 8)
advance64(ch, count) ==
  IF count > ch.len THEN [ch |-> ch, threw |-> TRUE] ELSE advance8(ch, count * 8)

\* offset8/32/64 and advance8/32/64 by element width
offsetW(ch, width) ==
  IF width = 1 THEN offset8(ch) ELSE IF width = 4 THEN offset32(ch) ELSE offset64(ch)

advanceW(ch, width, count) ==
  IF width = 1 THEN advance8(ch, count)
  ELSE IF width = 4 THEN advance32(ch, count) ELSE advance64(ch, count)

(***************************************************************************)
(* Writer.  Every method returns [ch, mem, threw].                         *)
(***************************************************************************)
\* const offset = this.offsetN(); this.advanceN(1); this.storage[offset] = value
writeScalar(ch, mem, width, value) ==
  LET o == offsetW(ch, width)
      a == advanceW(o.ch, width, 1)
  IN  IF a.threw THEN [ch |-> a.ch, mem |-> mem, threw |-> TRUE]
      ELSE [ch |-> a.ch, mem |-> storeElement(mem, ch.len, width, o.idx, value),
            threw |-> FALSE]

writeUint8(ch, mem, value) == writeScalar(ch, mem, 1, value)
writeUint32(ch, mem, value) == writeScalar(ch, mem, 4, value)
writeInt32(ch, mem, value) == writeScalar(ch, mem, 4, value)
writeFloat32(ch, mem, value) == writeScalar(ch, mem, 4, toBits("Float32", value))
\* a 64-bit float is carried as the bit pattern the typed array stores for it
writeFloat64(ch, mem, value) == writeScalar(ch, mem, 8, value)

\* init<T>(): reserve one element, return the setter that stores into it later
initScalar(ch, mem, width) ==
  LET o == offsetW(ch, width)
      a == advanceW(o.ch, width, 1)
  IN  [ch |-> a.ch, mem |-> mem, threw |-> a.threw, start |-> o.idx]

\* the setter of init<T>(): value => { this.storage[offset] = value }
setter(mem, len, width, offset, value) == storeElement(mem, len, width, offset, value)

\* view[i] = arr[i] for every i, on the view init<T>Elements(length) returned:
\* an index outside the view is ignored
populate(mem, len, width, start, length, arr) ==
  setElements(mem, len, width, start, SubSeq(arr, 1, IF Len(arr) < length THEN Len(arr) ELSE length))

\* init<T>Elements(length): reserve, return the view [start, start + length)
initElements(ch, mem, width, length) ==
  LET o == offsetW(ch, width)
      a == advanceW(o.ch, width, length)
  IN  [ch |-> a.ch, mem |-> mem, threw |-> a.threw, start |-> o.idx]

\* init<T>Array(length): writeUint32(length), then init<T>Elements(length)
initArray(ch, mem, width, length) ==
  LET p == writeUint32(ch, mem, length)
  IN  IF p.threw THEN [ch |-> p.ch, mem |-> p.mem, threw |-> TRUE, start |-> 0]
      ELSE initElements(p.ch, p.mem, width, length)

copyElementsByteStart(ch, mem, width, arr) ==
  LET o == offsetW(ch, width)
      a == advanceW(o.ch, width, Len(arr))
  IN  IF a.threw THEN [ch |-> a.ch, mem |-> mem, threw |-> TRUE]
      ELSE [ch |-> a.ch, mem |-> setElements(mem, ch.len, width, o.ch.offset, arr),
            threw |-> FALSE]

\* copy<T>Elements(arr): reserve, then storage.set(arr, start)
copyElements(ch, mem, width, arr) ==
  LET o == offsetW(ch, width)
      a == advanceW(o.ch, width, Len(arr))
  IN  IF a.threw THEN [ch |-> a.ch, mem |-> mem, threw |-> TRUE]
      ELSE [ch |-> a.ch, mem |-> setElements(mem, ch.len, width, o.idx, arr),
            threw |-> FALSE]

\* copy<T>Array(arr): writeUint32(arr.length), then copy<T>Elements(arr)
copyArray(ch, mem, width, arr) ==
  LET p == writeUint32(ch, mem, Len(arr))
  IN  IF p.threw THEN p ELSE copyElements(p.ch, p.mem, width, arr)

(***************************************************************************)
(* Reader.  Every method returns [ch, threw, ret].                         *)
(***************************************************************************)
\* const offset = this.offsetN(); this.advanceN(1); return this.storage[offset]
readScalar(ch, mem, width) ==
  LET o == offsetW(ch, width)
      a == advanceW(o.ch, width, 1)
  IN  IF a.threw THEN [ch |-> a.ch, threw |-> TRUE, ret |-> -1]
      ELSE [ch |-> a.ch, threw |-> FALSE, ret |-> loadElement(mem, ch.len, width, o.idx)]

readUint8(ch, mem) == readScalar(ch, mem, 1)
readUint32(ch, mem) == readScalar(ch, mem, 4)

\* the same through the view of type T
readTyped(ch, mem, T) ==
  LET o == offsetW(ch, WidthOf(T))
      a == advanceW(o.ch, WidthOf(T), 1)
  IN  IF a.threw THEN [ch |-> a.ch, threw |-> TRUE, ret |-> -1]
      ELSE [ch |-> a.ch, threw |-> FALSE, ret |-> loadTyped(mem, ch.len, T, o.idx)]

readInt32(ch, mem) == readTyped(ch, mem, "Int32")
readFloat32(ch, mem) == readTyped(ch, mem, "Float32")
readFloat64(ch, mem) == readScalar(ch, mem, 8)

\* read<T>Elements(length): the view [start, start + length)
readElements(ch, mem, width, length) ==
  LET o == offsetW(ch, width)
      a == advanceW(o.ch, width, length)
  IN  IF a.threw THEN [ch |-> a.ch, threw |-> TRUE, ret |-> <<>>]
      ELSE [ch |-> a.ch, threw |-> FALSE,
            ret |-> subarray(mem, ch.len, width, o.idx, length)]

\* read<T>Array(): const length = this.readUint32(); read<T>Elements(length)
readArray(ch, mem, width) ==
  LET p == readUint32(ch, mem)
  IN  IF p.threw THEN [ch |-> p.ch, threw |-> TRUE, ret |-> <<>>, n |-> 0]
      ELSE LET e == readElements(p.ch, mem, width, p.ret)
           IN  [ch |-> e.ch, threw |-> e.threw, ret |-> e.ret, n |-> p.ret]

\* copy<T>Array(arr) for an array of numbers
copyArrayOf(T, ch, mem, arr) ==
  copyArray(ch, mem, WidthOf(T), [i \in 1..Len(arr) |-> toBits(T, arr[i])])

\* view[i] = arr[i] on the view init<T>Array returned, for an array of numbers
populateOf(T, mem, len, start, length, arr) ==
  populate(mem, len, WidthOf(T), start, length, [i \in 1..Len(arr) |-> toBits(T, arr[i])])

\* read<T>Elements(length), as the numbers of the view
readElementsOf(T, ch, mem, length) ==
  LET o == offsetW(ch, WidthOf(T))
      a == advanceW(o.ch, WidthOf(T), length)
  IN  IF a.threw THEN [ch |-> a.ch, threw |-> TRUE, ret |-> <<>>]
      ELSE [ch |-> a.ch, threw |-> FALSE,
            ret |-> [i \in 1..length |-> loadTyped(mem, ch.len, T, o.idx + i - 1)]]

\* read<T>Array()
readArrayOf(T, ch, mem) ==
  LET p == readUint32(ch, mem)
  IN  IF p.threw THEN [ch |-> p.ch, threw |-> TRUE, ret |-> <<>>, n |-> 0]
      ELSE LET e == readElementsOf(T, p.ch, mem, p.ret)
           IN  [ch |-> e.ch, threw |-> e.threw, ret |-> e.ret, n |-> p.ret]

(***************************************************************************)
(* State.                                                                  *)
(***************************************************************************)
VARIABLES
  \* SpecConduit: a Writer and a Reader over the same region
  wr,      \* the Writer's channel
  rd,      \* the Reader's channel
  cmem,    \* the bytes of the buffer: the region, then Guard bytes after it
  cpend,   \* the setter or view an init* operation returned, not yet used
  rt,      \* SpecRound: the script of writes, and what was written and read so far
  clast,   \* the last codec operation: what was asked, from where, how it ended
  cops,    \* codec operations so far
  \* the host Instance (Spec, SpecCall)
  phase,     \* "new", then "ready" or "failed" once createInstance has ended
  cfg,       \* what createInstance captured: sizes and the four pointers
  memPages,  \* size of the WebAssembly.Memory, in pages
  memBuf,    \* identity of memory.buffer; every grow makes a new one
  memGrows,  \* grows by the module after createInstance
  boot,      \* what createInstance did to the memory
  nextObj,   \* identity of the next object a createView callback builds
  inChan,    \* createView cache of the input Writer
  outChan,   \* createView cache of the output Reader
  userView,  \* createView cache of a caller's view
  inBytes,   \* bytes of the input channel's storage
  outBytes,  \* bytes of the output channel's storage
  errData,   \* content of the error buffer (see ErrBytes)
  held,      \* the channels the caller got from getInput / getOutput
  vret,      \* the last two returns of the caller's view accessor
  modInput,  \* module global `input`
  modOutput, \* module global `output`
  modCopy,   \* the copy the module's getInput / getOutput last returned
  pc,        \* position of the bound operation in progress
  steps,     \* operations on the channels so far (SpecChan)
  last,      \* the last operation on the Instance and how it ended
  \* the import set and the log side channel (SpecLog)
  finalImports, \* the import set createInstance passed to WebAssembly.instantiate
  logHist,      \* content of the log buffer (logStorage), named by what the module
                \* did before each call of the hook (see LogStorage)
  logView,      \* createView cache of getLogData
  sink,         \* the calls of the caller's log function: how many, the last message
  \* the module's channel storage (SpecAlloc)
  heap,           \* the blocks std.heap.wasm_allocator handed out
  input_storage,  \* module global `input_storage`
  output_storage  \* module global `output_storage`

conduitVars == <<wr, rd, cmem, cpend, rt, clast, cops>>

memVars == <<memPages, memBuf, memGrows>>

instVars == <<phase, cfg, boot>>

chanVars == <<inChan, outChan, inBytes, outBytes, held>>

modVars == <<modInput, modOutput, modCopy>>

viewVars == <<userView, vret>>

logVars == <<finalImports, logHist, logView, sink>>

allocVars == <<heap, input_storage, output_storage>>

sideVars == <<logVars, allocVars>>

hostVars ==
  <<phase, cfg, memPages, memBuf, memGrows, boot, nextObj, inChan, outChan, userView,
    inBytes, outBytes, errData, held, vret, modInput, modOutput, modCopy, pc, steps, last,
    sideVars>>

vars == <<conduitVars, hostVars>>

(***************************************************************************)
(* The host Instance before createInstance: nothing exists yet.            *)
(***************************************************************************)
\* a createView cache: `buffer` and `instance` both undefined
NoInst == [obj |-> 0, over |-> 0, offset |-> 0, len |-> 0]

NoView == [buffer |-> 0, inst |-> NoInst]

NoCfg ==
  [inSize |-> 0, outSize |-> 0, logPtr |-> 0, errPtr |-> 0, inputPtr |-> 0, outputPtr |-> 0]

\* no import set was built yet
NoImports == [top |-> {}, env |-> {}]

\* the caller's log function was not called yet
NoSink == [calls |-> 0, message |-> <<>>]

\* ?[]u64 = null
null == [some |-> FALSE, ptr |-> 0, len |-> 0]

\* the addresses std.heap.wasm_allocator may answer with: three u64 words
Places == {8, 16, 24}

\* the bytes of those words
HeapBytes == {at + k : at \in Places, k \in 0..7}

\* never handed out
NoBlock == [words |-> 0, freed |-> 0, role |-> "none", size |-> 0]

\* no block was handed out yet; the memory holds zeros
EmptyHeap ==
  [blocks |-> [at \in Places |-> NoBlock], mem |-> [a \in HeapBytes |-> 0], debug |-> FALSE]

InitHost ==
  /\ phase = "new"
  /\ cfg = NoCfg
  /\ memPages = 0
  /\ memBuf = 0
  /\ memGrows = 0
  /\ boot = [created |-> 0, before |-> 0, required |-> 0, grown |-> 0, calls |-> <<>>]
  /\ nextObj = 1
  /\ inChan = NoView
  /\ outChan = NoView
  /\ userView = NoView
  /\ inBytes = <<>>
  /\ outBytes = <<>>
  /\ errData = "empty"
  /\ held = [input |-> FALSE, output |-> FALSE, writes |-> 0, reads |-> 0]
  /\ vret = [n |-> 0, obj |-> 0, over |-> 0, buf |-> 0, prevObj |-> 0, prevBuf |-> 0]
  /\ modInput = [offset |-> 0, store |-> 0]
  /\ modOutput = [offset |-> 0, store |-> 0]
  /\ modCopy = [role |-> "none", offset |-> 0, store |-> 0, uses |-> 0]
  /\ pc = "idle"
  /\ steps = 0
  /\ last = [kind |-> "none"]
  /\ finalImports = NoImports
  /\ logHist = <<>>
  /\ logView = NoView
  /\ sink = NoSink
  /\ heap = EmptyHeap
  /\ input_storage = null
  /\ output_storage = null

(***************************************************************************)
(* SpecConduit: new Writer(buffer, 0, Cap) and new Reader(buffer, 0, Cap)  *)
(* over a zeroed ArrayBuffer, then any MaxOps operations.                  *)
(***************************************************************************)
Cap == 8 * CapWords

Widths == {1, 4, 8}

\* the values written: a byte, a 32-bit value of two non-zero bytes, a 64-bit pattern
ValueOf(width) == IF width = 1 THEN 7 ELSE IF width = 4 THEN 258 ELSE <<5, 1>>

ArrayOf(width, n) == [i \in 1..n |-> ValueOf(width)]

ScalarWrites ==
  { [op |-> "writeUint8", w |-> 1], [op |-> "writeUint32", w |-> 4],
    [op |-> "writeInt32", w |-> 4], [op |-> "writeFloat32", w |-> 4],
    [op |-> "writeFloat64", w |-> 8] }

ScalarReads ==
  { [op |-> "readUint8", w |-> 1], [op |-> "readUint32", w |-> 4],
    [op |-> "readInt32", w |-> 4], [op |-> "readFloat32", w |-> 4],
    [op |-> "readFloat64", w |-> 8] }

\* no script
NoRound ==
  [script |-> <<>>, w |-> 0, r |-> 0, ok |-> TRUE, wcur |-> <<>>, got |-> <<>>, rcur |-> <<>>]

\* no setter or view is pending
NoPend == [kind |-> "none", w |-> 1, start |-> 0, n |-> 0]

Pending(kind, w, start, n) == [kind |-> kind, w |-> w, start |-> start, n |-> n]

NoOp == [op |-> "none", kind |-> "none", w |-> 1, n |-> 0, pre |-> 0, threw |-> FALSE]

Done(op, kind, w, n, pre, threw) ==
  [op |-> op, kind |-> kind, w |-> w, n |-> n, pre |-> pre, threw |-> threw]

\* the same with what a read returned
Returned(done, ret) == done @@ ("ret" :> ret)

writeByName(op, ch, mem, value) ==
  CASE op = "writeUint8" -> writeUint8(ch, mem, value)
    [] op = "writeUint32" -> writeUint32(ch, mem, value)
    [] op = "writeInt32" -> writeInt32(ch, mem, value)
    [] op = "writeFloat32" -> writeFloat32(ch, mem, value)
    [] op = "writeFloat64" -> writeFloat64(ch, mem, value)

readByName(op, ch, mem) ==
  CASE op = "readUint8" -> readUint8(ch, mem)
    [] op = "readUint32" -> readUint32(ch, mem)
    [] op = "readInt32" -> readInt32(ch, mem)
    [] op = "readFloat32" -> readFloat32(ch, mem)
    [] op = "readFloat64" -> readFloat64(ch, mem)

\* the codec's own state: both channels at cursor 0 over a zeroed buffer
InitCodec ==
  /\ wr = Channel(Cap)
  /\ rd = Channel(Cap)
  /\ cmem = [a \in 0..(Cap + Guard - 1) |-> 0]
  /\ cpend = NoPend
  /\ rt = NoRound
  /\ clast = NoOp
  /\ cops = 0

InitConduit == InitCodec /\ InitHost

CWrite ==
  \E s \in ScalarWrites :
    LET r == writeByName(s.op, wr, cmem, ValueOf(s.w))
    IN  /\ cops < MaxOps
        /\ wr' = r.ch
        /\ cmem' = r.mem
        /\ clast' = Done(s.op, "scalar", s.w, 1, wr.offset, r.threw)
        /\ cops' = cops + 1
        /\ UNCHANGED <<rd, cpend, rt, hostVars>>

\* initUint8() .. initFloat64(): the setter is kept for later
CInitScalar ==
  \E w \in Widths :
    LET r == initScalar(wr, cmem, w)
    IN  /\ cops < MaxOps
        /\ wr' = r.ch
        /\ cmem' = r.mem
        /\ cpend' = IF r.threw THEN cpend ELSE Pending("setter", w, r.start, 1)
        /\ clast' = Done("initScalar", "scalar", w, 1, wr.offset, r.threw)
        /\ cops' = cops + 1
        /\ UNCHANGED <<rd, rt, hostVars>>

\* the caller calls the setter it holds, whatever was written since
CSet ==
  /\ cpend.kind = "setter"
  /\ cmem' = setter(cmem, wr.len, cpend.w, cpend.start, ValueOf(cpend.w))
  /\ cpend' = NoPend
  /\ clast' = Done("set", "deferred", cpend.w, 1, cpend.start * cpend.w, FALSE)
  /\ UNCHANGED <<wr, rd, cops, rt, hostVars>>

\* the caller fills the view it holds, also trying one index past its end
CPopulate ==
  \E extra \in {0, 1} :
    /\ cpend.kind = "view"
    /\ cmem' = populate(cmem, wr.len, cpend.w, cpend.start, cpend.n,
                        ArrayOf(cpend.w, cpend.n + extra))
    /\ cpend' = NoPend
    /\ clast' = Done("populate", "deferred", cpend.w, cpend.n, cpend.start * cpend.w, FALSE)
    /\ UNCHANGED <<wr, rd, cops, rt, hostVars>>

CInitElements ==
  \E w \in Widths, n \in 0..MaxArr :
    LET r == initElements(wr, cmem, w, n)
    IN  /\ cops < MaxOps
        /\ wr' = r.ch
        /\ cmem' = r.mem
        /\ cpend' = IF r.threw THEN cpend ELSE Pending("view", w, r.start, n)
        /\ clast' = Done("initElements", "elements", w, n, wr.offset, r.threw)
        /\ cops' = cops + 1
        /\ UNCHANGED <<rd, rt, hostVars>>

CInitArray ==
  \E w \in Widths, n \in 0..MaxArr :
    LET r == initArray(wr, cmem, w, n)
    IN  /\ cops < MaxOps
        /\ wr' = r.ch
        /\ cmem' = r.mem
        /\ cpend' = IF r.threw THEN cpend ELSE Pending("view", w, r.start, n)
        /\ clast' = Done("initArray", "array", w, n, wr.offset, r.threw)
        /\ cops' = cops + 1
        /\ UNCHANGED <<rd, rt, hostVars>>

CCopyElements ==
  \E w \in Widths, n \in 0..MaxArr :
    LET r == copyElements(wr, cmem, w, ArrayOf(w, n))
    IN  /\ cops < MaxOps
        /\ wr' = r.ch
        /\ cmem' = r.mem
        /\ clast' = Done("copyElements", "elements", w, n, wr.offset, r.threw)
        /\ cops' = cops + 1
        /\ UNCHANGED <<rd, cpend, rt, hostVars>>

CCopyArray ==
  \E w \in Widths, n \in 0..MaxArr :
    LET r == copyArray(wr, cmem, w, ArrayOf(w, n))
    IN  /\ cops < MaxOps
        /\ wr' = r.ch
        /\ cmem' = r.mem
        /\ clast' = Done("copyArray", "array", w, n, wr.offset, r.threw)
        /\ cops' = cops + 1
        /\ UNCHANGED <<rd, cpend, rt, hostVars>>

CRead ==
  \E s \in ScalarReads :
    LET r == readByName(s.op, rd, cmem)
    IN  /\ cops < MaxOps
        /\ rd' = r.ch
        /\ clast' = Returned(Done(s.op, "scalar", s.w, 1, rd.offset, r.threw), r.ret)
        /\ cops' = cops + 1
        /\ UNCHANGED <<wr, cmem, cpend, rt, hostVars>>

CReadElements ==
  \E w \in Widths, n \in 0..MaxArr :
    LET r == readElements(rd, cmem, w, n)
    IN  /\ cops < MaxOps
        /\ rd' = r.ch
        /\ clast' = Returned(Done("readElements", "elements", w, n, rd.offset, r.threw), r.ret)
        /\ cops' = cops + 1
        /\ UNCHANGED <<wr, cmem, cpend, rt, hostVars>>

CReadArray ==
  \E w \in Widths :
    LET r == readArray(rd, cmem, w)
    IN  /\ cops < MaxOps
        /\ rd' = r.ch
        /\ clast' = Returned(Done("readArray", "array", w, r.n, rd.offset, r.threw), r.ret)
        /\ cops' = cops + 1
        /\ UNCHANGED <<wr, cmem, cpend, rt, hostVars>>

CResetWriter ==
  /\ cops < MaxOps
  /\ wr.offset # 0
  /\ wr' = reset(wr)
  /\ clast' = NoOp
  /\ cops' = cops + 1
  /\ UNCHANGED <<rd, cmem, cpend, rt, hostVars>>

CResetReader ==
  /\ cops < MaxOps
  /\ rd.offset # 0
  /\ rd' = reset(rd)
  /\ clast' = NoOp
  /\ cops' = cops + 1
  /\ UNCHANGED <<wr, cmem, cpend, rt, hostVars>>

NextConduit ==
  \/ CWrite
  \/ CInitScalar
  \/ CSet
  \/ CPopulate
  \/ CInitElements
  \/ CInitArray
  \/ CCopyElements
  \/ CCopyArray
  \/ CRead
  \/ CReadElements
  \/ CReadArray
  \/ CResetWriter
  \/ CResetReader

SpecConduit == InitConduit /\ [][NextConduit]_vars

(***************************************************************************)
(* SpecCursor: the same operations on a Writer and a Reader of any         *)
(* capacity of 1 to CapWords words: an 8-byte channel is full after one    *)
(* operation, so that the next one fails from an unaligned cursor.         *)
(***************************************************************************)
InitCursor ==
  /\ \E words \in 1..CapWords :
       /\ wr = Channel(8 * words)
       /\ rd = Channel(8 * words)
  /\ cmem = [a \in 0..(Cap + Guard - 1) |-> 0]
  /\ cpend = NoPend
  /\ rt = NoRound
  /\ clast = NoOp
  /\ cops = 0
  /\ InitHost

SpecCursor == InitCursor /\ [][NextConduit]_vars

(***************************************************************************)
(* C10.  An operation fails with the bounds error exactly when its aligned *)
(* cursor plus its total width (element width times element count) exceeds *)
(* the capacity.  A length-prefixed array operation is its 4-byte prefix   *)
(* followed by its elements, each placed by the same rule.                 *)
(***************************************************************************)
\* the smallest multiple of k that is >= c
RoundedUp(c, k) == CHOOSE m \in c..(c + k - 1) : m % k = 0

\* does placing n elements of width w at cursor c run past the capacity
RunsPast(c, w, n) == n > Cap \/ RoundedUp(c, w) + w * n > Cap

ExceedsCapacity(o) ==
  IF o.kind = "array"
  THEN \/ RunsPast(o.pre, 4, 1)
       \/ RunsPast(RoundedUp(o.pre, 4) + 4, o.w, o.n)
  ELSE RunsPast(o.pre, o.w, o.n)

\* C10: the last operation raised 'Reached end of channel' iff it exceeds the capacity
C10_BoundsErrorIffExceeds ==
  clast.op # "none" => (clast.threw <=> ExceedsCapacity(clast))

\* an array operation whose prefix fits and whose elements do not has raised
C10_Witness ==
  /\ clast.kind = "array"
  /\ clast.threw
  /\ ~RunsPast(clast.pre, 4, 1)
  /\ clast.n >= 1

\* the bytes a step has changed
Changed == {a \in DOMAIN cmem : cmem'[a] # cmem[a]}

\* C11: whatever a Writer operation does, and whether it succeeds or fails, it
\* changes no byte outside the channel's region; an operation on the cursor
\* changes only bytes between the cursor it found and the cursor it leaves (none
\* at an earlier offset), and a deferred setter or view changes only the bytes
\* that were reserved for it.
C11_WritesStayInRegion ==
  [][\A a \in Changed :
       /\ a >= 0
       /\ a < Cap
       /\ IF clast'.kind = "deferred"
          THEN /\ cpend.start * cpend.w <= a
               /\ a < (cpend.start + cpend.n) * cpend.w
               /\ (cpend.start + cpend.n) * cpend.w <= Cap
          ELSE /\ wr.offset <= a
               /\ a < wr'.offset]_vars

\* a view of 64-bit elements that ends at the end of the region has been filled
\* to its last element, and the bytes after the region are as they were
C11_Witness ==
  /\ clast.kind = "deferred"
  /\ clast.w = 8
  /\ wr.offset = Cap
  /\ cmem[Cap - 4] = 1
  /\ \A a \in Cap..(Cap + Guard - 1) : cmem[a] = 0

\* the element type a scalar operation acts on
TypeOfOp(op) ==
  CASE op \in {"writeUint8", "readUint8"} -> "Uint8"
    [] op \in {"writeUint32", "readUint32"} -> "Uint32"
    [] op \in {"writeInt32", "readInt32"} -> "Int32"
    [] op \in {"writeFloat32", "readFloat32"} -> "Float32"
    [] op \in {"writeFloat64", "readFloat64"} -> "Float64"

WriteOps == {"writeUint8", "writeUint32", "writeInt32", "writeFloat32", "writeFloat64"}

ReadOps == {"readUint8", "readUint32", "readInt32", "readFloat32", "readFloat64"}

\* C12: a value of width 1 is placed at the cursor c and leaves the cursor at
\* c + 1; a value of width 4, and the length prefix of every array, is placed at
\* the smallest multiple of 4 that is >= c and leaves the cursor 4 after it; a
\* value of width 8 is placed at the smallest multiple of 8 that is >= c and
\* leaves the cursor 8 after it.
C12_AlignmentRule ==
  LET at == RoundedUp(clast.pre, clast.w)
      at4 == RoundedUp(clast.pre, 4)
  IN  /\ (clast.op \in WriteOps /\ ~clast.threw)
           => /\ wr.offset = at + clast.w
              /\ ElemAt(cmem, at, clast.w) = toBits(TypeOfOp(clast.op), ValueOf(clast.w))
      /\ (clast.op = "initScalar" /\ ~clast.threw)
           => /\ wr.offset = at + clast.w
              /\ cpend.start * cpend.w = at
      /\ (clast.op \in ReadOps /\ ~clast.threw)
           => /\ rd.offset = at + clast.w
              /\ clast.ret = fromBytes(TypeOfOp(clast.op), cmem, at)
      /\ (clast.op \in {"copyArray", "initArray"} /\ ~clast.threw)
           => /\ leValue(cmem, at4, 4) = clast.n
              /\ wr.offset = RoundedUp(at4 + 4, clast.w) + clast.w * clast.n
      /\ (clast.op = "readArray" /\ ~clast.threw)
           => /\ clast.n = leValue(cmem, at4, 4)
              /\ rd.offset = RoundedUp(at4 + 4, clast.w) + clast.w * clast.n

\* a u8 at offset 0, then a u32: the u32 lies at byte 4 and the cursor is 8
C12_Witness ==
  /\ clast.op = "writeUint32"
  /\ clast.pre = 1
  /\ cmem[0] = 7
  /\ cmem[1] = 0
  /\ ElemAt(cmem, 4, 4) = 258
  /\ wr.offset = 8

(***************************************************************************)
(* SpecRound: a caller writes a script of values through a Writer at       *)
(* cursor 0, then reads it back through a Reader at cursor 0 over the same *)
(* region, with reads of the same types in the same order.                 *)
(***************************************************************************)
\* scalar items of one script
MaxScript == 3

\* the numbers written as scalars, by type and choice: one the type holds, and
\* for Uint8 and Float32 one it does not
ScalarValue(T, k) ==
  CASE T = "Uint8" -> IF k = 1 THEN 255 ELSE 300
    [] T = "Uint32" -> 2147483647
    [] T = "Int32" -> -2
    [] T = "Float32" -> IF k = 1 THEN 3 ELSE 16777217
    [] T = "Float64" -> <<5, 1>>

\* element i of the arrays written: numbers the type holds, all different
ElemOf(T, i) ==
  CASE T = "Uint8" -> 250 + i
    [] T = "Uint32" -> 258 + i
    [] T = "Int32" -> 0 - i
    [] T = "Float32" -> 16777214 + 2 * i
    [] T = "Float64" -> <<5 + i, 1>>

\* a script names its items: a scalar by type and choice of value, an array by
\* type, length and the way it is written
AllScalarItems ==
  {[kind |-> "scalar", T |-> T, k |-> k] :
     T \in Types, k \in {1, 2}} \ {[kind |-> "scalar", T |-> T, k |-> 2] :
                                       T \in {"Uint32", "Int32", "Float64"}}

ArrayItems ==
  {[kind |-> how, T |-> T, k |-> n] : how \in {"copy", "init"}, T \in Types, n \in 0..MaxArr}

\* the item a name stands for: its number or its array
ItemOf(name) ==
  [kind |-> name.kind, T |-> name.T,
   v |-> IF name.kind = "scalar" THEN ScalarValue(name.T, name.k) ELSE 0,
   arr |-> IF name.kind = "scalar" THEN <<>> ELSE [i \in 1..name.k |-> ElemOf(name.T, i)]]

RECURSIVE ScriptsOf(_, _)
\* the sequences of at most n of the items
ScriptsOf(items, n) ==
  IF n = 0 THEN {<<>>}
  ELSE LET shorter == ScriptsOf(items, n - 1)
       IN  shorter \cup {Append(t, i) : t \in shorter, i \in items}

\* scalars only, or an array with at most one scalar before and after it
Scripts ==
  ScriptsOf(AllScalarItems, MaxScript)
    \cup {pre \o <<a>> \o post : pre \in ScriptsOf(AllScalarItems, 1), a \in ArrayItems,
                                 post \in ScriptsOf(AllScalarItems, 1)}

\* write<T>(v)
writeOf(T, ch, mem, v) ==
  CASE T = "Uint8" -> writeUint8(ch, mem, v)
    [] T = "Uint32" -> writeUint32(ch, mem, v)
    [] T = "Int32" -> writeInt32(ch, mem, v)
    [] T = "Float32" -> writeFloat32(ch, mem, v)
    [] T = "Float64" -> writeFloat64(ch, mem, v)

\* read<T>()
readOf(T, ch, mem) ==
  CASE T = "Uint8" -> readUint8(ch, mem)
    [] T = "Uint32" -> readUint32(ch, mem)
    [] T = "Int32" -> readInt32(ch, mem)
    [] T = "Float32" -> readFloat32(ch, mem)
    [] T = "Float64" -> readFloat64(ch, mem)

InitRound ==
  /\ wr = Channel(Cap)
  /\ rd = Channel(Cap)
  /\ cmem = [a \in 0..(Cap + Guard - 1) |-> 0]
  /\ cpend = NoPend
  /\ rt \in {[NoRound EXCEPT !.script = t] : t \in Scripts}
  /\ clast = NoOp
  /\ cops = 0
  /\ InitHost

\* the next item of the script is written; a write that does not fit ends the run
RWrite ==
  LET item == ItemOf(rt.script[rt.w + 1])
      r == CASE item.kind = "scalar" -> writeOf(item.T, wr, cmem, item.v)
             [] item.kind = "copy" -> copyArrayOf(item.T, wr, cmem, item.arr)
             [] item.kind = "init" -> initArray(wr, cmem, WidthOf(item.T), Len(item.arr))
  IN  /\ rt.ok
      /\ rt.w < Len(rt.script)
      /\ cpend = NoPend
      /\ wr' = r.ch
      /\ cmem' = r.mem
      /\ cpend' = IF item.kind = "init" /\ ~r.threw
                  THEN Pending("view", WidthOf(item.T), r.start, Len(item.arr))
                  ELSE cpend
      /\ rt' = IF r.threw THEN [rt EXCEPT !.ok = FALSE]
               ELSE [rt EXCEPT !.w = @ + 1, !.wcur = Append(@, r.ch.offset)]
      /\ UNCHANGED <<rd, clast, cops, hostVars>>

\* the view init<T>Array returned is filled with the array
RPopulate ==
  /\ cpend.kind = "view"
  /\ rt.w >= 1
  /\ cmem' = populateOf(rt.script[rt.w].T, cmem, wr.len, cpend.start, cpend.n,
                        ItemOf(rt.script[rt.w]).arr)
  /\ cpend' = NoPend
  /\ UNCHANGED <<wr, rd, rt, clast, cops, hostVars>>

\* once everything is written, the items are read back in order
RRead ==
  LET item == ItemOf(rt.script[rt.r + 1])
      r == IF item.kind = "scalar" THEN readOf(item.T, rd, cmem)
           ELSE readArrayOf(item.T, rd, cmem)
  IN  /\ rt.ok
      /\ rt.w = Len(rt.script)
      /\ cpend = NoPend
      /\ rt.r < rt.w
      /\ rd' = r.ch
      /\ rt' = [rt EXCEPT !.r = @ + 1,
                          !.got = Append(@, [threw |-> r.threw, ret |-> r.ret]),
                          !.rcur = Append(@, r.ch.offset)]
      /\ UNCHANGED <<wr, cmem, cpend, clast, cops, hostVars>>

NextRound ==
  \/ RWrite
  \/ RPopulate
  \/ RRead

SpecRound == InitRound /\ [][NextRound]_vars

\* the numbers a typed array of type T holds exactly
InRange(T, v) ==
  CASE T = "Uint8" -> v >= 0 /\ v <= 255
    [] T = "Float32" -> v >= 0 /\ (v <= 16777216 \/ v % 2 = 0)
    [] OTHER -> TRUE

\* C13: when a script of scalar writes has been written from cursor 0 and is
\* read back from cursor 0 with reads of the same types in the same order, every
\* read returns the number that was written, for numbers within the range of
\* their type, and after every read the Reader's cursor is where the Writer's
\* cursor was after the corresponding write.
C13_ScalarRoundTrip ==
  \A i \in 1..rt.r :
    rt.script[i].kind = "scalar"
      => /\ ~rt.got[i].threw
         /\ rt.rcur[i] = rt.wcur[i]
         /\ InRange(rt.script[i].T, ItemOf(rt.script[i]).v)
              => rt.got[i].ret = ItemOf(rt.script[i]).v

\* a u8 255, an i32 -2 and an f64 came back as they were written
C13_Witness ==
  /\ rt.r = 3
  /\ rt.script[1] = [kind |-> "scalar", T |-> "Uint8", k |-> 1]
  /\ rt.script[2] = [kind |-> "scalar", T |-> "Int32", k |-> 1]
  /\ rt.script[3].T = "Float64"
  /\ rt.got[2].ret = -2
  /\ rt.rcur = <<1, 8, 16>>

\* the cursor the Writer had before item i
Before(i) == IF i = 1 THEN 0 ELSE rt.wcur[i - 1]

\* C14: copy<T>Array(v), or init<T>Array(|v|) followed by filling the view,
\* writes |v| as a u32 at the 4-aligned cursor and the elements after it at the
\* alignment of their type, and read<T>Array() at the same cursor returns exactly
\* the |v| elements of v; for an empty v the prefix 0 is written and the view
\* returned is empty.
C14_ArrayRoundTrip ==
  \A i \in 1..Len(rt.script) :
    LET item == ItemOf(rt.script[i])
        w == WidthOf(item.T)
        at4 == RoundedUp(Before(i), 4)
        first == RoundedUp(at4 + 4, w)
    IN  item.kind \in {"copy", "init"}
          => /\ (rt.w >= i /\ cpend = NoPend)
                  => /\ leValue(cmem, at4, 4) = Len(item.arr)
                     /\ \A j \in 1..Len(item.arr) :
                          fromBytes(item.T, cmem, first + (j - 1) * w) = item.arr[j]
                     /\ rt.wcur[i] = first + w * Len(item.arr)
             /\ rt.r >= i
                  => /\ rt.got[i] = [threw |-> FALSE, ret |-> item.arr]
                     /\ rt.rcur[i] = rt.wcur[i]

\* after a u8, initFloat64Array(1) and filling its view: the element came back
C14_Witness ==
  /\ rt.r = 2
  /\ rt.script[1].kind = "scalar"
  /\ rt.script[1].T = "Uint8"
  /\ rt.script[2].kind = "init"
  /\ rt.script[2].T = "Float64"
  /\ rt.got[2].ret = <<<<6, 1>>>>
  /\ rt.wcur[2] = 16

(***************************************************************************)
(* createInstance.                                                         *)
(***************************************************************************)
PAGE_SIZE == 65536
MAX_LOG_SIZE == 2048
MAX_ERROR_SIZE == 256

\* grows of the memory by the module after createInstance, in one run
MaxGrow == 1
\* operations on the channels of one Instance, in one run of SpecChan
MaxSteps == 4

Max2(a, b) == IF a >= b THEN a ELSE b

\* (size + 7) & ~7: the size of the storage the module allocates for a channel
alignedSize(size) == ((size + 7) \div 8) * 8

requiredBytes(inputPtr, inSize, outputPtr, outSize, logPtr, errPtr) ==
  Max2(Max2(inputPtr + inSize, outputPtr + outSize),
       Max2(logPtr + MAX_LOG_SIZE, errPtr + MAX_ERROR_SIZE))

additionalPagesFloor(delta) == delta \div PAGE_SIZE

\* Math.ceil(delta / PAGE_SIZE)
additionalPages(delta) == (delta + PAGE_SIZE - 1) \div PAGE_SIZE

\* the pages createInstance passes to memory.grow; 0 when it does not call it
growBy(byteLength, required) ==
  IF byteLength < required
  THEN LET pages == additionalPages(required - byteLength)
       IN  IF pages > 0 THEN pages ELSE 0
  ELSE 0

Zeroed(n) == [a \in 0..(n - 1) |-> 0]

(***************************************************************************)
(* What createInstance is given: the options (channel sizes, the pages of  *)
(* the memory it creates or is handed) and the module (the pages of a      *)
(* memory it exports, 0 for none; the pages it grows the memory by while   *)
(* it allocates; the four addresses it returns).                           *)
(***************************************************************************)
BootCaseSwapped(pages, exported, modGrow, logPtr, errPtr, inputPtr, inSize, outputPtr, outSize) ==
  [pages |-> pages, exported |-> exported, modGrow |-> modGrow, logPtr |-> logPtr,
   errPtr |-> errPtr, inputPtr |-> outputPtr, inSize |-> inSize,
   outputPtr |-> inputPtr, outSize |-> outSize]

BootCase(pages, exported, modGrow, logPtr, errPtr, inputPtr, inSize, outputPtr, outSize) ==
  [pages |-> pages, exported |-> exported, modGrow |-> modGrow, logPtr |-> logPtr,
   errPtr |-> errPtr, inputPtr |-> inputPtr, inSize |-> inSize,
   outputPtr |-> outputPtr, outSize |-> outSize]

BootCases ==
  { \* everything inside the first page
    BootCase(1, 0, 0, 1024, 4096, 8192, 8, 8704, 8),
    \* the channels end exactly at the end of the memory
    BootCase(1, 0, 0, 1024, 4096, 65520, 8, 65528, 8),
    \* the input channel ends 8 bytes past the memory
    BootCase(1, 0, 0, 1024, 4096, 65528, 16, 8704, 8),
    \* the channels lie in the second page
    BootCase(1, 0, 0, 1024, 4096, 70000, 16, 120000, 8),
    \* the same, and the module has grown the memory itself
    BootCase(1, 0, 1, 1024, 4096, 70000, 16, 120000, 8),
    \* the same, in a memory the module exports
    BootCase(1, 2, 0, 1024, 4096, 70000, 16, 120000, 8),
    \* exactly one page is missing
    BootCase(1, 0, 0, 1024, 4096, 8192, 8, 131064, 8),
    \* two pages are missing; the log buffer decides
    BootCase(2, 0, 0, 200000, 4096, 8192, 8, 70000, 8),
    \* an input size that is no multiple of 8
    BootCase(1, 0, 0, 1024, 4096, 8192, 12, 8704, 8) }

exportCallsSwapped(c) ==
  << <<"getLogPtr", 0>>, <<"getErrorPtr", 0>>, <<"allocateInputChannel", c.outSize>>,
     <<"allocateOutputChannel", c.inSize>> >>

\* the four calls of exports createInstance makes, in order, with their argument
\* (0 for none)
exportCalls(c) ==
  << <<"getLogPtr", 0>>, <<"getErrorPtr", 0>>, <<"allocateInputChannel", c.inSize>>,
     <<"allocateOutputChannel", c.outSize>> >>

\* createInstance from the memory it uses to the views it declares: what it does
\* to the memory, what it records, and the storage the module allocated for it
Bootstrap(c) ==
  LET pages0 == IF c.exported > 0 THEN c.exported ELSE c.pages
      before == pages0 + c.modGrow
      required == requiredBytes(c.inputPtr, c.inSize, c.outputPtr, c.outSize,
                                c.logPtr, c.errPtr)
      grown == growBy(before * PAGE_SIZE, required)
  IN  /\ phase = "new"
      /\ phase' = "ready"
      /\ cfg' = [inSize |-> c.inSize, outSize |-> c.outSize, logPtr |-> c.logPtr,
                 errPtr |-> c.errPtr, inputPtr |-> c.inputPtr, outputPtr |-> c.outputPtr]
      /\ memPages' = before + grown
      /\ memBuf' = 1 + (IF c.modGrow > 0 THEN 1 ELSE 0) + (IF grown > 0 THEN 1 ELSE 0)
      /\ boot' = [created |-> pages0, before |-> before * PAGE_SIZE,
                  required |-> required, grown |-> grown, calls |-> exportCalls(c)]
      /\ inBytes' = Zeroed(alignedSize(c.inSize))
      /\ outBytes' = Zeroed(alignedSize(c.outSize))
      /\ errData' = "empty"
      /\ modInput' = [offset |-> 0, store |-> c.inputPtr]
      /\ modOutput' = [offset |-> 0, store |-> c.outputPtr]
      /\ UNCHANGED <<memGrows, nextObj, inChan, outChan, userView, held, vret, modCopy, pc, steps>>

\* createInstance(wasmBuffer, options) of a module that does not log while it starts
CreateInstance(c) ==
  /\ Bootstrap(c)
  /\ last' = [kind |-> "createInstance", options |-> c]
  /\ UNCHANGED <<conduitVars, sideVars>>

\* await WebAssembly.instantiate(...) rejects: the memory was made (or handed
\* in) before, nothing after the await runs
InstantiateFails ==
  \E c \in BootCases :
    /\ phase = "new"
    /\ phase' = "failed"
    /\ memPages' = c.pages
    /\ memBuf' = 1
    /\ boot' = [created |-> c.pages, before |-> c.pages * PAGE_SIZE, required |-> 0,
                grown |-> 0, calls |-> <<>>]
    /\ last' = [kind |-> "instantiateFailed", options |-> c]
    /\ UNCHANGED <<cfg, memGrows, nextObj, chanVars, userView, errData, vret, modVars, pc,
                   steps>>
    /\ UNCHANGED <<conduitVars, sideVars>>

\* the module (or the caller, through env.memory) grows the memory: between the
\* caller's operations, or while the module runs inside a bound operation
MemoryGrow ==
  /\ phase = "ready"
  /\ pc \in {"idle", "call"}
  /\ memGrows < MaxGrow
  /\ memPages' = memPages + 1
  /\ memBuf' = memBuf + 1
  /\ memGrows' = memGrows + 1
  /\ last' = IF pc = "idle" THEN [kind |-> "grow"] ELSE last
  /\ UNCHANGED <<instVars, nextObj, chanVars, userView, errData, vret, modVars, pc, steps>>
  /\ UNCHANGED <<conduitVars, sideVars>>

(***************************************************************************)
(* createView: the accessor keeps `buffer` and `instance`.                 *)
(* created = what createFunc(memory.buffer) does: [threw, inst].           *)
(***************************************************************************)
viewCall(view, buf, created) ==
  IF view.inst.obj = 0 \/ buf # view.buffer
  THEN IF created.threw
       THEN [view |-> [view EXCEPT !.buffer = buf], threw |-> TRUE, ret |-> NoInst]
       ELSE [view |-> [buffer |-> buf, inst |-> created.inst], threw |-> FALSE,
             ret |-> created.inst]
  ELSE [view |-> view, threw |-> FALSE, ret |-> view.inst]

\* new Writer / new Reader (buffer, offset, sizeInBytes): the Channel constructor
newChannel(byteLength, offset, sizeInBytes, obj, buf) ==
  IF offset % 8 = 0 /\ sizeInBytes % 8 = 0 /\ offset + sizeInBytes <= byteLength
  THEN [threw |-> FALSE,
        inst |-> [obj |-> obj, over |-> buf, offset |-> 0, len |-> sizeInBytes]]
  ELSE [threw |-> TRUE, inst |-> NoInst]

getInputNoReset(view, buf, byteLength, c, obj) ==
  viewCall(view, buf, newChannel(byteLength, c.inputPtr, c.inSize, obj, buf))

\* const input = getInputChannel(); input.reset(); return input
getInput(view, buf, byteLength, c, obj) ==
  LET v == viewCall(view, buf, newChannel(byteLength, c.inputPtr, c.inSize, obj, buf))
  IN  IF v.threw THEN v
      ELSE [view |-> [v.view EXCEPT !.inst = reset(v.ret)], threw |-> FALSE,
            ret |-> reset(v.ret)]

\* const input = getOutputChannel(); input.reset(); return input
getOutput(view, buf, byteLength, c, obj) ==
  LET v == viewCall(view, buf, newChannel(byteLength, c.outputPtr, c.outSize, obj, buf))
  IN  IF v.threw THEN v
      ELSE [view |-> [v.view EXCEPT !.inst = reset(v.ret)], threw |-> FALSE,
            ret |-> reset(v.ret)]

\* the channel a Writer / Reader object acts on: its typed arrays have length 0
\* once the buffer they were built over is detached by a grow
chanOf(inst, buf) ==
  [offset |-> inst.offset, len |-> IF inst.over = buf THEN inst.len ELSE 0]

ByteLength == memPages * PAGE_SIZE

Bump(n) == IF n >= 2 THEN 2 ELSE n + 1

(***************************************************************************)
(* Instance.getInput / getOutput and the caller's use of what they return. *)
(***************************************************************************)
GetInput ==
  /\ phase = "ready"
  /\ pc = "idle"
  /\ steps < MaxSteps
  /\ steps' = steps + 1
  /\ LET r == getInput(inChan, memBuf, ByteLength, cfg, nextObj)
     IN  /\ inChan' = r.view
         /\ nextObj' = IF ~r.threw /\ r.ret.obj = nextObj THEN nextObj + 1 ELSE nextObj
         /\ held' = [held EXCEPT !.input = ~r.threw, !.writes = 0]
         /\ last' = [kind |-> "getInput", threw |-> r.threw, ret |-> r.ret]
  /\ UNCHANGED <<instVars, memVars, outChan, userView, inBytes, outBytes, errData,
                 vret, modVars, pc>>
  /\ UNCHANGED <<conduitVars, sideVars>>

GetOutput ==
  /\ phase = "ready"
  /\ pc = "idle"
  /\ steps < MaxSteps
  /\ steps' = steps + 1
  /\ LET r == getOutput(outChan, memBuf, ByteLength, cfg, nextObj)
     IN  /\ outChan' = r.view
         /\ nextObj' = IF ~r.threw /\ r.ret.obj = nextObj THEN nextObj + 1 ELSE nextObj
         /\ held' = [held EXCEPT !.output = ~r.threw, !.reads = 0]
         /\ last' = [kind |-> "getOutput", threw |-> r.threw, ret |-> r.ret]
  /\ UNCHANGED <<instVars, memVars, inChan, userView, inBytes, outBytes, errData,
                 vret, modVars, pc>>
  /\ UNCHANGED <<conduitVars, sideVars>>

\* the caller writes through the Writer that getInput returned
HostWrite ==
  \E s \in {[op |-> "writeUint8", w |-> 1, value |-> 7],
            [op |-> "writeUint8", w |-> 1, value |-> 9],
            [op |-> "writeUint32", w |-> 4, value |-> 258]} :
    LET r == writeByName(s.op, chanOf(inChan.inst, memBuf), inBytes, s.value)
    IN  /\ phase = "ready"
        /\ pc = "idle"
        /\ steps < MaxSteps
        /\ steps' = steps + 1
        /\ held.input
        /\ inChan' = [inChan EXCEPT !.inst.offset = r.ch.offset]
        /\ inBytes' = r.mem
        /\ held' = [held EXCEPT !.writes = Bump(held.writes)]
        /\ last' = [kind |-> "write", nth |-> Bump(held.writes), w |-> s.w,
                    value |-> s.value, threw |-> r.threw]
        /\ UNCHANGED <<instVars, memVars, nextObj, outChan, userView, outBytes, errData,
                       vret, modVars, pc>>
        /\ UNCHANGED <<conduitVars, sideVars>>

\* the caller reads through the Reader that getOutput returned
HostRead ==
  \E op \in {"readUint8", "readUint32"} :
    LET r == readByName(op, chanOf(outChan.inst, memBuf), outBytes)
    IN  /\ phase = "ready"
        /\ pc = "idle"
        /\ steps < MaxSteps
        /\ steps' = steps + 1
        /\ held.output
        /\ outChan' = [outChan EXCEPT !.inst.offset = r.ch.offset]
        /\ held' = [held EXCEPT !.reads = Bump(held.reads)]
        /\ last' = [kind |-> "read", nth |-> Bump(held.reads), op |-> op,
                    ret |-> r.ret, threw |-> r.threw]
        /\ UNCHANGED <<instVars, memVars, nextObj, inChan, userView, inBytes, outBytes,
                       errData, vret, modVars, pc>>
        /\ UNCHANGED <<conduitVars, sideVars>>

(***************************************************************************)
(* A caller's view: const getView = instance.createView(init); getView().  *)
(* init builds a new object over the buffer it is given, or throws.        *)
(***************************************************************************)
CallView ==
  \E fails \in BOOLEAN :
    LET created == IF fails THEN [threw |-> TRUE, inst |-> NoInst]
                   ELSE [threw |-> FALSE,
                         inst |-> [obj |-> nextObj, over |-> memBuf, offset |-> 0, len |-> 0]]
        r == viewCall(userView, memBuf, created)
    IN  /\ phase = "ready"
        /\ pc = "idle"
        /\ userView' = r.view
        /\ nextObj' = IF ~r.threw /\ r.ret.obj = nextObj THEN nextObj + 1 ELSE nextObj
        /\ vret' = IF r.threw THEN vret
                   ELSE [n |-> Bump(vret.n), obj |-> r.ret.obj, over |-> r.ret.over,
                         buf |-> memBuf, prevObj |-> vret.obj, prevBuf |-> vret.buf]
        /\ last' = [kind |-> "view", threw |-> r.threw]
        /\ UNCHANGED <<instVars, memVars, chanVars, errData, modVars, pc, steps>>
        /\ UNCHANGED <<conduitVars, sideVars>>

(***************************************************************************)
(* Module side: getInput() / getOutput() reset the global and return a     *)
(* copy of it; the module then reads or writes through its copy.           *)
(***************************************************************************)
\* input.reset(); return input
modGetInput(global) == [global |-> reset(global), ret |-> reset(global)]

\* output.reset(); return output
modGetOutput(global) == [global |-> reset(global), ret |-> reset(global)]

ModGetInput ==
  /\ phase = "ready"
  /\ pc = "idle"
  /\ steps < MaxSteps
  /\ steps' = steps + 1
  /\ LET r == modGetInput(modInput)
     IN  /\ modInput' = r.global
         /\ modCopy' = [role |-> "in", offset |-> r.ret.offset, store |-> r.ret.store,
                        uses |-> 0]
         /\ last' = [kind |-> "modGetInput", ret |-> r.ret]
  /\ UNCHANGED <<instVars, memVars, nextObj, chanVars, userView, errData, vret,
                 modOutput, pc>>
  /\ UNCHANGED <<conduitVars, sideVars>>

ModGetOutput ==
  /\ phase = "ready"
  /\ pc = "idle"
  /\ steps < MaxSteps
  /\ steps' = steps + 1
  /\ LET r == modGetOutput(modOutput)
     IN  /\ modOutput' = r.global
         /\ modCopy' = [role |-> "out", offset |-> r.ret.offset, store |-> r.ret.store,
                        uses |-> 0]
         /\ last' = [kind |-> "modGetOutput", ret |-> r.ret]
  /\ UNCHANGED <<instVars, memVars, nextObj, chanVars, userView, errData, vret,
                 modInput, pc>>
  /\ UNCHANGED <<conduitVars, sideVars>>

\* the module reads a byte of its input copy
ModRead ==
  LET r == readUint8([offset |-> modCopy.offset, len |-> alignedSize(cfg.inSize)], inBytes)
  IN  /\ phase = "ready"
      /\ pc = "idle"
      /\ steps < MaxSteps
      /\ steps' = steps + 1
      /\ modCopy.role = "in"
      /\ modCopy' = [modCopy EXCEPT !.offset = r.ch.offset, !.uses = Bump(modCopy.uses)]
      /\ last' = [kind |-> "modRead", nth |-> Bump(modCopy.uses), ret |-> r.ret,
                  threw |-> r.threw]
      /\ UNCHANGED <<instVars, memVars, nextObj, chanVars, userView, errData, vret,
                     modInput, modOutput, pc>>
      /\ UNCHANGED <<conduitVars, sideVars>>

\* the module writes a byte through its output copy
ModWrite ==
  \E value \in {11, 12} :
    LET r == writeUint8([offset |-> modCopy.offset, len |-> alignedSize(cfg.outSize)],
                        outBytes, value)
    IN  /\ phase = "ready"
        /\ pc = "idle"
        /\ steps < MaxSteps
        /\ steps' = steps + 1
        /\ modCopy.role = "out"
        /\ modCopy' = [modCopy EXCEPT !.offset = r.ch.offset, !.uses = Bump(modCopy.uses)]
        /\ outBytes' = r.mem
        /\ last' = [kind |-> "modWrite", nth |-> Bump(modCopy.uses), w |-> 1,
                    value |-> value, threw |-> r.threw]
        /\ UNCHANGED <<instVars, memVars, nextObj, inChan, outChan, inBytes, held,
                       userView, errData, vret, modInput, modOutput, pc>>
        /\ UNCHANGED <<conduitVars, sideVars>>

(***************************************************************************)
(* Spec: createInstance, the memory and a caller's view.                   *)
(***************************************************************************)
Init == InitCodec /\ InitHost

Boot == \E c \in BootCases : CreateInstance(c)

Next ==
  \/ Boot
  \/ InstantiateFails
  \/ MemoryGrow
  \/ CallView

Spec == Init /\ [][Next]_vars

(***************************************************************************)
(* SpecChan: the channels of one Instance, host side and module side.      *)
(***************************************************************************)
ChanCases ==
  { BootCase(1, 0, 0, 1024, 4096, 8192, 8, 8704, 8),
    BootCase(1, 0, 0, 1024, 4096, 70000, 16, 120000, 8),
    BootCase(1, 0, 0, 1024, 4096, 8192, 12, 8704, 8) }

BootChan == \E c \in ChanCases : CreateInstance(c)

NextChan ==
  \/ BootChan
  \/ MemoryGrow
  \/ GetInput
  \/ GetOutput
  \/ HostWrite
  \/ HostRead
  \/ ModGetInput
  \/ ModGetOutput
  \/ ModRead
  \/ ModWrite

SpecChan == Init /\ [][NextChan]_vars

(***************************************************************************)
(* The error buffer and handleError.                                       *)
(***************************************************************************)
\* data.indexOf(x) on a view of n bytes
indexOf(data, n, x) ==
  IF \E i \in 0..(n - 1) : data[i] = x
  THEN CHOOSE i \in 0..(n - 1) : data[i] = x /\ \A j \in 0..(i - 1) : data[j] # x
  ELSE -1

messageLengthKeepsLast(data, n) ==
  LET length == indexOf(data, n, 0) IN IF length = -1 THEN n - 1 ELSE length

\* const length = data.indexOf(0); length === -1 ? data.length : length
messageLength(data, n) ==
  LET length == indexOf(data, n, 0) IN IF length = -1 THEN n ELSE length

\* TextDecoder (UTF-8), one code point per byte: the bytes of the model are ASCII
\* or 0xFF, which no UTF-8 sequence contains and which decodes to U+FFFD
decodeByte(b) == IF b < 128 THEN b ELSE 65533

\* decoder.decode(data.subarray(0, length))
decode(data, length) == [i \in 1..length |-> decodeByte(data[i - 1])]

\* the code points of 'Unknown error'
UnknownError == <<85, 110, 107, 110, 111, 119, 110, 32, 101, 114, 114, 111, 114>>

\* the code points of 'Reached end of channel'
ReachedEnd ==
  <<82, 101, 97, 99, 104, 101, 100, 32, 101, 110, 100, 32, 111, 102, 32, 99, 104, 97,
    110, 110, 101, 108>>

\* the code points of 'Assertion failed'
AssertionFailed ==
  <<65, 115, 115, 101, 114, 116, 105, 111, 110, 32, 102, 97, 105, 108, 101, 100>>

\* throw Error(message)
NewError(message) == [type |-> "Error", message |-> message, exc |-> "undefined"]

\* throw e: the value that was caught, itself
Rethrown(e) == [type |-> "rethrown", message |-> <<>>, exc |-> e]

NoError == [type |-> "none", message |-> <<>>, exc |-> "undefined"]

throwWasmErrorExcFirst(data, e) ==
  LET n == messageLength(data, MAX_ERROR_SIZE)
  IN  IF e # "undefined" THEN Rethrown(e)
      ELSE IF n > 0 THEN NewError(decode(data, n))
      ELSE NewError(UnknownError)

throwWasmErrorAnyLength(data, e) ==
  LET n == messageLength(data, MAX_ERROR_SIZE)
  IN  IF n >= 0 THEN NewError(decode(data, n))
      ELSE IF e # "undefined" THEN Rethrown(e)
      ELSE NewError(UnknownError)

throwWasmErrorCopy(data, e) ==
  LET n == messageLength(data, MAX_ERROR_SIZE)
  IN  IF n > 0 THEN NewError(decode(data, n))
      ELSE NewError(UnknownError)

\* throwWasmError(e?): always throws; what it throws.  data = getErrorData()
throwWasmError(data, e) ==
  LET n == messageLength(data, MAX_ERROR_SIZE)
  IN  IF n > 0 THEN NewError(decode(data, n))
      ELSE IF e # "undefined" THEN Rethrown(e)
      ELSE NewError(UnknownError)

handleErrorChecksBuffer(raw, data) ==
  IF raw.kind = "throw" THEN [raised |-> TRUE, err |-> throwWasmError(data, raw.exc)]
  ELSE IF raw.code # 0 \/ messageLength(data, MAX_ERROR_SIZE) > 0
       THEN [raised |-> TRUE, err |-> throwWasmError(data, "undefined")]
       ELSE [raised |-> FALSE, err |-> NoError]

handleErrorNeedsMessage(raw, data) ==
  IF raw.kind = "throw" THEN [raised |-> TRUE, err |-> throwWasmError(data, raw.exc)]
  ELSE IF raw.code # 0 /\ messageLength(data, MAX_ERROR_SIZE) > 0
       THEN [raised |-> TRUE, err |-> throwWasmError(data, "undefined")]
       ELSE [raised |-> FALSE, err |-> NoError]

\* handleError(func): raw = how func() ended, data = the error buffer after it
handleError(raw, data) ==
  IF raw.kind = "throw" THEN [raised |-> TRUE, err |-> throwWasmError(data, raw.exc)]
  ELSE IF raw.code # 0
       THEN [raised |-> TRUE, err |-> throwWasmError(data, "undefined")]
       ELSE [raised |-> FALSE, err |-> NoError]

throwWasmErrorDataCleared(data, e) ==
  IF messageLength(data, MAX_ERROR_SIZE) > 0 THEN Zeroed(MAX_ERROR_SIZE) ELSE data

\* the bytes of the error buffer when throwWasmError(e?) has thrown: data.indexOf(0),
\* data.subarray(0, messageLength) and decoder.decode(...) read the view, no byte
\* of it is stored
throwWasmErrorData(data, e) == data

\* the bytes of the error buffer when handleError(func) is over; data = the error
\* buffer as func() left it
handleErrorData(raw, data) ==
  IF raw.kind = "throw" THEN throwWasmErrorData(data, raw.exc)
  ELSE IF raw.code # 0 THEN throwWasmErrorData(data, "undefined")
  ELSE data

(***************************************************************************)
(* What a raw call can do: return a code or throw a value, and leave any   *)
(* content in the error buffer.                                            *)
(***************************************************************************)
RawOutcomes ==
  { [kind |-> "return", code |-> 0, exc |-> "undefined"],
    [kind |-> "return", code |-> 1, exc |-> "undefined"],
    [kind |-> "throw", code |-> 0, exc |-> "E1"],
    [kind |-> "throw", code |-> 0, exc |-> "undefined"] }

NoRaw == [kind |-> "none", code |-> 0, exc |-> "undefined"]

\* text, then a zero byte, then zeros
Terminated(text) ==
  [a \in 0..(MAX_ERROR_SIZE - 1) |-> IF a < Len(text) THEN text[a + 1] ELSE 0]

\* the contents the module leaves in its error buffer; errData names one of them
ErrContents == {"empty", "bad", "stale", "raw", "full"}

\* the bytes of the error buffer, by the name of its content
ErrBytes ==
  [name \in ErrContents |->
     CASE name = "empty" -> Zeroed(MAX_ERROR_SIZE)
       [] name = "bad" -> Terminated(<<98, 97, 100>>)
       \* no message, and an earlier text after the terminator
       [] name = "stale" -> Terminated(<<0, 98, 97, 100>>)
       \* a byte that is no UTF-8
       [] name = "raw" -> Terminated(<<255, 98>>)
       \* no terminator
       [] name = "full" -> [a \in 0..(MAX_ERROR_SIZE - 1) |-> 98]]

\* handleError over every outcome of a raw call and every content of the error
\* buffer, computed once
handleErrorOf ==
  [raw \in RawOutcomes, data \in ErrContents |-> handleError(raw, ErrBytes[data])]

\* the content of the error buffer after handleError, by the name of the content
\* func() left
errDataAfter ==
  [raw \in RawOutcomes, data \in ErrContents |->
     LET after == handleErrorData(raw, ErrBytes[data])
     IN  CHOOSE name \in ErrContents : ErrBytes[name] = after]

\* instance.handleError(func), called by the caller.  func() leaves the content
\* data in the error buffer (data = errData: it did not write there); kept says
\* that it left there what the failed call before this one had left
HandleError ==
  \E raw \in RawOutcomes, data \in ErrContents :
    /\ phase = "ready"
    /\ pc = "idle"
    /\ errData' = errDataAfter[raw, data]
    /\ last' = [kind |-> "handleError", raw |-> raw,
                out |-> handleErrorOf[raw, data], func |-> data,
                kept |-> /\ data = errData
                         /\ last.kind = "handleError"
                         /\ last.out.raised]
    /\ UNCHANGED <<instVars, memVars, nextObj, chanVars, userView, vret, modVars, pc, steps>>
    /\ UNCHANGED <<conduitVars, sideVars>>

(***************************************************************************)
(* The bound operation: bind(func, write, read)(...args), that is          *)
(*   const input = getInput(); write(input, ...args)                       *)
(*   handleError(func)                                                     *)
(*   const output = getOutput(); return read(output, ...args)              *)
(* one step at a time, so that the module's part lies between the host's.  *)
(***************************************************************************)
ArgTuples == {<<5>>, <<300>>}

\* the caller's write functions
Encoders == {"u32", "u8", "array"}

\* the caller's read functions
Decoders == {"u32plus", "three"}

\* write(input, ...args)
encodeBy(enc, ch, mem, args) ==
  CASE enc = "u32" -> writeUint32(ch, mem, args[1])
    [] enc = "u8" -> writeUint8(ch, mem, 1)
    [] enc = "array" -> copyArray(ch, mem, 4, <<args[1], args[1], args[1]>>)

\* read(output, ...args): [ch, threw, ret]
decodeBy(dec, ch, mem, args) ==
  CASE dec = "u32plus" ->
         LET r == readUint32(ch, mem)
         IN  IF r.threw THEN r ELSE [r EXCEPT !.ret = r.ret + args[1]]
    [] dec = "three" ->
         LET a == readUint32(ch, mem)
             b == IF a.threw THEN a ELSE readUint32(a.ch, mem)
             c == IF b.threw THEN b ELSE readUint32(b.ch, mem)
         IN  IF c.threw THEN c ELSE [c EXCEPT !.ret = a.ret + b.ret + c.ret]

Event(ev, arg) == [ev |-> ev, arg |-> arg]

Raise(call, err) == [call EXCEPT !.status = "raised", !.err = err]

\* bound(...args) begins: getInput()
BindStart ==
  \E args \in ArgTuples, enc \in Encoders, dec \in Decoders :
    LET r == getInput(inChan, memBuf, ByteLength, cfg, nextObj)
        call == [kind |-> "bound", args |-> args, enc |-> enc, dec |-> dec,
                 trace |-> <<Event("getInput", <<r.ret.offset>>)>>, status |-> "running",
                 raw |-> NoRaw, out |-> [raised |-> FALSE, err |-> NoError],
                 result |-> 0, err |-> NoError]
    IN  /\ phase = "ready"
        /\ pc = "idle"
        /\ inChan' = r.view
        /\ nextObj' = IF ~r.threw /\ r.ret.obj = nextObj THEN nextObj + 1 ELSE nextObj
        /\ pc' = IF r.threw THEN "idle" ELSE "encode"
        /\ last' = IF r.threw THEN Raise(call, NewError(AssertionFailed)) ELSE call
        /\ UNCHANGED <<instVars, memVars, outChan, userView, inBytes, outBytes, errData,
                       held, vret, modVars, steps>>
        /\ UNCHANGED <<conduitVars, sideVars>>

\* write(input, ...args)
BindEncode ==
  LET r == encodeBy(last.enc, chanOf(inChan.inst, memBuf), inBytes, last.args)
      call == [last EXCEPT !.trace = Append(@, Event("encode", last.args))]
  IN  /\ pc = "encode"
      /\ inChan' = [inChan EXCEPT !.inst.offset = r.ch.offset]
      /\ inBytes' = r.mem
      /\ pc' = IF r.threw THEN "idle" ELSE "call"
      /\ last' = IF r.threw THEN Raise(call, NewError(ReachedEnd)) ELSE call
      /\ UNCHANGED <<instVars, memVars, nextObj, outChan, userView, outBytes, errData,
                     held, vret, modVars, steps>>
      /\ UNCHANGED <<conduitVars, sideVars>>

\* handleError(func): the module runs; when it returns it has written a u32 at the
\* start of its output storage
BindCall ==
  \E raw \in RawOutcomes, data \in ErrContents :
    LET out == handleErrorOf[raw, data]
        wrote == writeUint32(Channel(alignedSize(cfg.outSize)), outBytes, 11)
        call == [last EXCEPT !.trace = @ \o <<Event("handleError", <<>>), Event("func", <<>>)>>,
                             !.raw = raw, !.out = out]
    IN  /\ pc = "call"
        /\ errData' = errDataAfter[raw, data]
        /\ outBytes' = IF raw.kind = "return" THEN wrote.mem ELSE outBytes
        /\ pc' = IF out.raised THEN "idle" ELSE "output"
        /\ last' = IF out.raised THEN Raise(call, out.err) ELSE call
        /\ UNCHANGED <<instVars, memVars, nextObj, inChan, outChan, userView, inBytes,
                       held, vret, modVars, steps>>
        /\ UNCHANGED <<conduitVars, sideVars>>

\* getOutput()
BindOutput ==
  LET r == getOutput(outChan, memBuf, ByteLength, cfg, nextObj)
      call == [last EXCEPT !.trace = Append(@, Event("getOutput", <<r.ret.offset>>))]
  IN  /\ pc = "output"
      /\ outChan' = r.view
      /\ nextObj' = IF ~r.threw /\ r.ret.obj = nextObj THEN nextObj + 1 ELSE nextObj
      /\ pc' = IF r.threw THEN "idle" ELSE "decode"
      /\ last' = IF r.threw THEN Raise(call, NewError(AssertionFailed)) ELSE call
      /\ UNCHANGED <<instVars, memVars, inChan, userView, inBytes, outBytes, errData,
                     held, vret, modVars, steps>>
      /\ UNCHANGED <<conduitVars, sideVars>>

\* return read(output, ...args)
BindDecode ==
  LET r == decodeBy(last.dec, chanOf(outChan.inst, memBuf), outBytes, last.args)
      call == [last EXCEPT !.trace = Append(@, Event("decode", last.args))]
  IN  /\ pc = "decode"
      /\ outChan' = [outChan EXCEPT !.inst.offset = r.ch.offset]
      /\ pc' = "idle"
      /\ last' = IF r.threw THEN Raise(call, NewError(ReachedEnd))
                 ELSE [call EXCEPT !.status = "returned", !.result = r.ret]
      /\ UNCHANGED <<instVars, memVars, nextObj, inChan, userView, inBytes, outBytes,
                     errData, held, vret, modVars, steps>>
      /\ UNCHANGED <<conduitVars, sideVars>>

(***************************************************************************)
(* SpecCall: calls across the boundary of one Instance.                    *)
(***************************************************************************)
BootCall == \E c \in ChanCases : CreateInstance(c)

NextCall ==
  \/ BootCall
  \/ MemoryGrow
  \/ HandleError
  \/ BindStart
  \/ BindEncode
  \/ BindCall
  \/ BindOutput
  \/ BindDecode

SpecCall == Init /\ [][NextCall]_vars

(***************************************************************************)
(* The import set createInstance builds and passes to instantiate:         *)
(*   const baseImports = imports ?? {}                                     *)
(*   const env = { ...(baseImports.env ?? {}), memory, hostLog: ... }      *)
(*   const finalImports = { ...baseImports, env }                          *)
(* An import set is its top-level namespaces, each with the object bound   *)
(* to it, and the keys of its env namespace, each with its value.          *)
(***************************************************************************)
Imports(top, env) == [top |-> top, env |-> env]

Ns(name, obj) == [name |-> name, obj |-> obj]

Key(key, value) == [key |-> key, value |-> value]

\* options.imports of a caller
CallerImports ==
  { \* none
    Imports({}, {}),
    \* a namespace of its own
    Imports({Ns("wasi_snapshot_preview1", "W1")}, {}),
    \* a namespace of its own and a key of env
    Imports({Ns("wasi_snapshot_preview1", "W1"), Ns("env", "E1")}, {Key("foo", "1")}),
    \* an env that has a memory of its own
    Imports({Ns("env", "E1")}, {Key("memory", "callerMemory")}),
    \* an env that has a hostLog of its own
    Imports({Ns("env", "E1")}, {Key("hostLog", "callerLog"), Key("foo", "1")}),
    \* an env that has both
    Imports({Ns("env", "E1")}, {Key("memory", "callerMemory"), Key("hostLog", "callerLog")}),
    \* an empty env
    Imports({Ns("wasi_snapshot_preview1", "W1"), Ns("env", "E1")}, {}) }

\* the keys createInstance writes after the spread
HostKeys(memory) == {Key("memory", memory), Key("hostLog", "wrapper")}

mergeEnvCallerLast(baseEnv, memory) ==
  baseEnv \cup {h \in HostKeys(memory) : \A b \in baseEnv : b.key # h.key}

\* { ...(baseImports.env ?? {}), memory, hostLog: () => { hostLog() } }
mergeEnv(baseEnv, memory) ==
  {b \in baseEnv : \A h \in HostKeys(memory) : h.key # b.key} \cup HostKeys(memory)

\* { ...baseImports, env }: env is the object built above
mergeImports(base, memory) ==
  Imports({n \in base.top : n.name # "env"} \cup {Ns("env", "env")},
          mergeEnv(base.env, memory))

(***************************************************************************)
(* The log side channel.                                                   *)
(* Module: log(msg) of log.zig.  Host: env.hostLog, the wrapper around     *)
(* hostLog, which reads the log buffer and calls the caller's log.         *)
(***************************************************************************)
\* calls of the notification hook in one run
MaxLogs == 2
\* @min(msg.len, logStorage.len - 1)
logLenFull(msg) == IF Len(msg) <= MAX_LOG_SIZE THEN Len(msg) ELSE MAX_LOG_SIZE

logLen(msg) == IF Len(msg) <= MAX_LOG_SIZE - 1 THEN Len(msg) ELSE MAX_LOG_SIZE - 1

\* log(msg) up to the call of the hook: logStorage after
\*   @memcpy(logStorage[0..len], msg[0..len]); logStorage[len] = 0
log(storage, msg) ==
  LET len == logLen(msg)
  IN  [a \in 0..(MAX_LOG_SIZE - 1) |->
         IF a < len THEN msg[a + 1] ELSE IF a = len THEN 0 ELSE storage[a]]

logfWholeBuffer(storage, out) ==
  [a \in 0..(MAX_LOG_SIZE - 1) |->
     IF a < Len(out) THEN out[a + 1] ELSE IF a = Len(out) THEN 0 ELSE storage[a]]

\* logf(fmt, args) up to the call of the hook; out = the bytes fmt and args
\* format to.  bufPrint writes into buf = logStorage[0 .. logStorage.len - 1]:
\* when out fits, data = out and logStorage[data.len] = 0; when it does not
\* (NoSpaceLeft) the bytes that fit are in buf and logStorage[2047] = 0
logf(storage, out) ==
  LET buf == MAX_LOG_SIZE - 1
  IN  IF Len(out) <= buf
      THEN [a \in 0..(MAX_LOG_SIZE - 1) |->
              IF a < Len(out) THEN out[a + 1] ELSE IF a = Len(out) THEN 0 ELSE storage[a]]
      ELSE [a \in 0..(MAX_LOG_SIZE - 1) |->
              IF a < buf THEN out[a + 1] ELSE IF a = MAX_LOG_SIZE - 1 THEN 0 ELSE storage[a]]

\* what a module does before it calls the hook: log(msg) with a message of n
\* bytes, none of them zero but the z-th (z > 0); logf(fmt, args) with an
\* output of n bytes; or ("fill") it leaves n non-zero bytes in the log region
\* itself
LogItem(op, n, z) == [op |-> op, n |-> n, z |-> z]

\* a short message, one that fills the buffer up to its terminator, one that is
\* a byte too long, and a short one with a zero byte in it
MsgKeys ==
  {LogItem("log", n, 0) : n \in {3, MAX_LOG_SIZE - 1, MAX_LOG_SIZE}}
    \cup {LogItem("log", 3, 2)}

\* outputs of logf: one that fills buf and one that is a byte too long
LogfKeys == {LogItem("logf", n, 0) : n \in {MAX_LOG_SIZE - 1, MAX_LOG_SIZE}}

LogFills == {LogItem("fill", MAX_LOG_SIZE, 0)}

LogItems == MsgKeys \cup LogFills

\* calls of log and logf in one run: logf, and log with a short message, with
\* one that fills the buffer up to its terminator and with one that is a byte
\* too long
LogCalls ==
  LogfKeys \cup {LogItem("log", n, 0) : n \in {3, MAX_LOG_SIZE - 1, MAX_LOG_SIZE}}

MsgBytes(k) == [i \in 1..k.n |-> IF i = k.z THEN 0 ELSE 97 + (i % 3)]

\* the messages, by their keys
MsgTable == [k \in MsgKeys \cup LogfKeys |-> MsgBytes(k)]

\* the log region with n bytes 'a' and zeros after them
LogBytes(k) == [a \in 0..(MAX_LOG_SIZE - 1) |-> IF a < k.n THEN 97 ELSE 0]

\* the hook calls of one run, in order
Histories == ScriptsOf(LogItems, MaxLogs) \cup ScriptsOf(LogCalls, MaxLogs)

\* the bytes of the log region after the module did k
storageStep(storage, k) ==
  CASE k.op = "log" -> log(storage, MsgTable[k])
    [] k.op = "logf" -> logf(storage, MsgTable[k])
    [] OTHER -> LogBytes(k)

RECURSIVE storageAfter(_)
\* the bytes of the log region after the items of h, from the zeroed logStorage
\* the module starts with
storageAfter(h) ==
  IF h = <<>> THEN Zeroed(MAX_LOG_SIZE)
  ELSE LET storage == storageAfter(SubSeq(h, 1, Len(h) - 1))
       IN  storageStep(storage, h[Len(h)])

\* the content of the log region, by the history that made it
LogStorage == [h \in Histories |-> storageAfter(h)]

\* hostLog, from the bytes of its view to the message:
\*   const length = data.indexOf(0)
\*   const messageLength = length === -1 ? data.length : length
\*   const message = decoder.decode(data.subarray(0, messageLength))
readLog(data) ==
  LET message == decode(data, messageLength(data, MAX_LOG_SIZE))
  IN  SubSeq(message, 1, Len(message))

\* the message hostLog reads, after each history
LogMessage == [h \in Histories |-> LET data == LogStorage[h] IN readLog(data)]

\* new Uint8ClampedArray(buffer, logPtr, MAX_LOG_SIZE)
newLogData(byteLength, logPtr, obj, buf) ==
  IF logPtr + MAX_LOG_SIZE <= byteLength
  THEN [threw |-> FALSE,
        inst |-> [obj |-> obj, over |-> buf, offset |-> 0, len |-> MAX_LOG_SIZE]]
  ELSE [threw |-> TRUE, inst |-> NoInst]

\* no call of the hook
NoHook == [at |-> "none", raised |-> FALSE, err |-> "none", forwarded |-> 0]

\* const hostLog = (): void => { const data = getLogData(); ...; log(message) }
\* message = readLog of the bytes of the log region when the hook is called
hostLog(view, buf, byteLength, c, obj, message) ==
  LET v == viewCall(view, buf, newLogData(byteLength, c.logPtr, obj, buf))
  IN  IF v.threw
      THEN [view |-> v.view, raised |-> TRUE, err |-> "RangeError", forwarded |-> 0,
            message |-> <<>>, obj |-> 0]
      ELSE [view |-> v.view, raised |-> FALSE, err |-> "none", forwarded |-> 1,
            message |-> message, obj |-> v.ret.obj]

\* what reading the binding `hostLog` gives before `const hostLog = ...` has
\* run: the binding is in its dead zone (ReferenceError); compiled down to a
\* `var` it is undefined, and calling it is a TypeError
EarlyErrors == {"ReferenceError", "TypeError"}

\* env.hostLog: () => { hostLog() }
\* declared = `const hostLog = ...` has run; inner = what hostLog() does then
envHostLog(declared, early, inner) ==
  IF declared THEN inner
  ELSE [view |-> NoView, raised |-> TRUE, err |-> early, forwarded |-> 0,
        message |-> <<>>, obj |-> 0]

\* the steps of createInstance in which code of the module runs, all of them
\* before `const hostLog = ...`; "never": the module does not log in any of them
BootSteps ==
  {"never", "instantiate", "getLogPtr", "getErrorPtr", "allocateInputChannel",
   "allocateOutputChannel"}

\* the caller's log(message)
logged(s, h) ==
  IF h.forwarded = 1 THEN [calls |-> s.calls + 1, message |-> h.message] ELSE s

\* createInstance(wasmBuffer, options) for a case c and the caller's imports
\* base, with a module that may call log('abc') at the step `at`
CreateInstanceLogging(c, base, at, early) ==
  /\ phase = "new"
  /\ finalImports' = mergeImports(base, "memory")
  /\ IF at = "never"
     THEN /\ Bootstrap(c)
          /\ logHist' = <<>>
          /\ last' = [kind |-> "createInstance", imports |-> base, hook |-> NoHook,
                      before |-> sink.calls]
          /\ UNCHANGED <<logView, sink>>
     ELSE LET hist == <<LogItem("log", 3, 0)>>
              h == envHostLog(FALSE, early,
                              hostLog(logView, memBuf, ByteLength, cfg, nextObj,
                                      LogMessage[hist]))
          IN  /\ phase' = IF h.raised THEN "failed" ELSE phase
              /\ logHist' = hist
              /\ sink' = logged(sink, h)
              /\ last' = [kind |-> "createInstance", imports |-> base,
                          hook |-> [at |-> at, raised |-> h.raised, err |-> h.err,
                                    forwarded |-> h.forwarded],
                          before |-> sink.calls]
              /\ UNCHANGED <<cfg, memVars, boot, nextObj, chanVars, userView, errData,
                             vret, modVars, pc, steps, logView>>
  /\ UNCHANGED <<conduitVars, allocVars>>

\* what createInstance is given in SpecLog: the log region lies past the memory
\* the caller asked for
LogBoots ==
  { [c |-> BootCase(2, 0, 0, 200000, 4096, 8192, 8, 70000, 8),
     base |-> Imports({Ns("env", "E1")}, {Key("foo", "1")})] }

BootLog ==
  \E b \in LogBoots, at \in BootSteps, early \in EarlyErrors :
    CreateInstanceLogging(b.c, b.base, at, early)

\* the module, called through an export, does k and calls the hook: env.hostLog()
HookCall(k) ==
  LET hist == Append(logHist, k)
      h == envHostLog(TRUE, "none",
                      hostLog(logView, memBuf, ByteLength, cfg, nextObj, LogMessage[hist]))
  IN  /\ phase = "ready"
      /\ Len(logHist) < MaxLogs
      /\ logHist' = hist
      /\ logView' = h.view
      /\ nextObj' = IF h.obj = nextObj THEN nextObj + 1 ELSE nextObj
      /\ sink' = logged(sink, h)
      /\ last' = [kind |-> k.op, msg |-> k,
                  hook |-> [at |-> "call", raised |-> h.raised, err |-> h.err,
                            forwarded |-> h.forwarded],
                  before |-> sink.calls]
      /\ UNCHANGED <<instVars, memVars, chanVars, userView, errData, vret, modVars, pc,
                     steps, finalImports>>
      /\ UNCHANGED <<conduitVars, allocVars>>

\* log(msg) of log.zig
ModuleLog == \E k \in MsgKeys : HookCall(k)

\* logf(fmt, args) of log.zig
ModuleLogf == \E k \in LogfKeys : HookCall(k)

\* log(msg) of log.zig, in a run of log and logf calls
ModuleLogCall == \E k \in LogCalls \ LogfKeys : HookCall(k)

\* a module that fills the log region itself and calls the hook
ModuleHook == \E k \in LogFills : HookCall(k)

(***************************************************************************)
(* SpecLog: one Instance, its log hook and its two side buffers.           *)
(***************************************************************************)
NextLog ==
  \/ BootLog
  \/ MemoryGrow
  \/ ModuleLog
  \/ ModuleHook
  \/ HandleError

SpecLog == Init /\ [][NextLog]_vars

(***************************************************************************)
(* SpecLogf: one Instance and a module that writes its log buffer through  *)
(* log and logf only.                                                      *)
(***************************************************************************)
NextLogf ==
  \/ BootLog
  \/ MemoryGrow
  \/ ModuleLogCall
  \/ ModuleLogf

SpecLogf == Init /\ [][NextLogf]_vars

(***************************************************************************)
(* SpecBoot: createInstance with the imports of a caller.                  *)
(***************************************************************************)
ImportBoots ==
  { [c |-> c, base |-> b] :
      c \in { BootCase(1, 0, 0, 1024, 4096, 8192, 8, 8704, 8),
               BootCase(1, 2, 0, 1024, 4096, 70000, 16, 120000, 8),
               BootCase(2, 0, 0, 200000, 4096, 8192, 8, 70000, 8) },
      b \in CallerImports }

BootImports ==
  \E b \in ImportBoots, at \in BootSteps, early \in EarlyErrors :
    CreateInstanceLogging(b.c, b.base, at, early)

NextBoot ==
  \/ BootImports
  \/ MemoryGrow

SpecBoot == Init /\ [][NextBoot]_vars

(***************************************************************************)
(* Module side: the storage of the two channels (interop.zig).             *)
(* allocateInputChannel / allocateOutputChannel validate the size, release *)
(* the role's previous storage, allocate, and bind the role's channel.     *)
(* heap.blocks[at] is the block std.heap.wasm_allocator handed out last at *)
(* the address `at`, with the times it was freed; heap.mem is the bytes.   *)
(***************************************************************************)
\* calls of the module in one behaviour
MaxCalls == 6

\* sizeInBytes: i32
AllocSizes == {-8, 0, 8, 12}

\* alloc(...) catch: the allocator has no memory left
OutOfMemory == 0

\* the bytes [ptr, ptr + 8 * len) of a slice []u64
BytesOf(ptr, len) == ptr..(ptr + 8 * len - 1)

Live(h) == {at \in Places : h.blocks[at].words > 0 /\ h.blocks[at].freed = 0}

\* the allocator may place n words at `at`: inside its memory, over no live block
Fits(h, n, at) ==
  /\ at \in Places
  /\ BytesOf(at, n) \subseteq HeapBytes
  /\ \A b \in Live(h) : BytesOf(at, n) \cap BytesOf(b, h.blocks[b].words) = {}

\* memory handed out or taken back is undefined: a Debug build (heap.debug)
\* writes 0xaa over it, other builds leave the bytes that were there
scribble(mem, bytes, debug) ==
  IF debug THEN [a \in HeapBytes |-> IF a \in bytes THEN 170 ELSE mem[a]] ELSE mem

freeLeaks(h, storage) == h

\* std.heap.wasm_allocator.free(storage): the block at that address
free(h, storage) ==
  [h EXCEPT !.blocks[storage.ptr].freed = h.blocks[storage.ptr].freed + 1,
            !.mem = scribble(h.mem, BytesOf(storage.ptr, storage.len), h.debug)]

\* std.heap.wasm_allocator.alloc(u64, n), placed at `at`; `tag` remembers the
\* role and the size asked for
alloc(h, n, at, tag, debug) ==
  [blocks |-> [h.blocks EXCEPT ![at] = [words |-> n, freed |-> 0, role |-> tag.role,
                                        size |-> tag.size]],
   mem    |-> scribble(h.mem, BytesOf(at, n), debug),
   debug  |-> debug]

\* const aligned = (size + 7) & ~@as(usize, 7); const sizeInU64s = aligned / 8
sizeInU64s(sizeInBytes) ==
  LET aligned == (sizeInBytes + 7) - ((sizeInBytes + 7) % 8)
  IN  aligned \div 8

\* conduit.Reader.from(storage) / conduit.Writer.from(storage): a channel over
\* the slice, cursor 0
from(storage) == [offset |-> 0, store |-> storage.ptr, len |-> 8 * storage.len]

channelForSwapped(role, storage) ==
  [class |-> IF role = "input" THEN "Writer" ELSE "Reader"] @@ from(storage)

\* input = conduit.Reader.from(storage); output = conduit.Writer.from(storage)
channelFor(role, storage) ==
  [class |-> IF role = "input" THEN "Reader" ELSE "Writer"] @@ from(storage)

\* Error.panicFormat / @panic: the call ends in the fatal diagnostic, no address
panic(h, storage, chan) ==
  [ended |-> "panic", ret |-> 0, heap |-> h, storage |-> storage, chan |-> chan]

allocateChannelFreesFirst(sizeInBytes, h, old, chan, at, tag, debug) ==
  LET released == IF old.some THEN free(h, old) ELSE h
  IN  IF sizeInBytes <= 0 THEN panic(released, old, chan)
      ELSE LET storage == [some |-> TRUE, ptr |-> at, len |-> sizeInU64s(sizeInBytes)]
           IN  [ended |-> "returned", ret |-> at,
                heap |-> alloc(released, sizeInU64s(sizeInBytes), at, tag, debug),
                storage |-> storage, chan |-> channelFor(tag.role, storage)]

\* allocateInputChannel / allocateOutputChannel share their body but for the
\* global they set.  Result: [ended, ret, heap, storage, chan].
allocateChannel(sizeInBytes, h, old, chan, at, tag, debug) ==
  IF sizeInBytes <= 0 THEN panic(h, old, chan)
  ELSE LET n        == sizeInU64s(sizeInBytes)
           released == IF old.some THEN free(h, old) ELSE h
       IN  IF at = OutOfMemory THEN panic(released, old, chan)
           ELSE LET storage == [some |-> TRUE, ptr |-> at, len |-> n]
                    pointer == at
                IN  [ended |-> "returned", ret |-> pointer,
                     heap |-> alloc(released, n, at, tag, debug),
                     storage |-> storage, chan |-> channelFor(tag.role, storage)]

\* where the allocator may answer a call: nowhere when the size is refused
Answers(sizeInBytes, h, old) ==
  IF sizeInBytes <= 0 THEN {OutOfMemory}
  ELSE LET released == IF old.some THEN free(h, old) ELSE h
       IN  {OutOfMemory} \cup {at \in Places : Fits(released, sizeInU64s(sizeInBytes), at)}

\* the build of the module is Debug or not, the same for every call
Builds == IF heap = EmptyHeap THEN BOOLEAN ELSE {heap.debug}

\* a fatal diagnostic ended a call: the module runs no further
Trapped == last.kind \in {"allocateInputChannel", "allocateOutputChannel"}
           /\ last.ended = "panic"

AllocateInputChannel ==
  \E sizeInBytes \in AllocSizes, debug \in Builds :
    \E at \in Answers(sizeInBytes, heap, input_storage) :
      LET r == allocateChannel(sizeInBytes, heap, input_storage, modInput, at,
                               [role |-> "input", size |-> sizeInBytes], debug)
      IN  /\ ~Trapped
          /\ steps < MaxCalls
          /\ steps' = steps + 1
          /\ heap' = r.heap
          /\ input_storage' = r.storage
          /\ modInput' = r.chan
          /\ last' = [kind |-> "allocateInputChannel", size |-> sizeInBytes,
                      ended |-> r.ended, ret |-> r.ret]
          /\ UNCHANGED <<instVars, memVars, nextObj, chanVars, viewVars, errData,
                         modOutput, modCopy, pc, logVars, output_storage>>
          /\ UNCHANGED conduitVars

AllocateOutputChannel ==
  \E sizeInBytes \in AllocSizes, debug \in Builds :
    \E at \in Answers(sizeInBytes, heap, output_storage) :
      LET r == allocateChannel(sizeInBytes, heap, output_storage, modOutput, at,
                               [role |-> "output", size |-> sizeInBytes], debug)
      IN  /\ ~Trapped
          /\ steps < MaxCalls
          /\ steps' = steps + 1
          /\ heap' = r.heap
          /\ output_storage' = r.storage
          /\ modOutput' = r.chan
          /\ last' = [kind |-> "allocateOutputChannel", size |-> sizeInBytes,
                      ended |-> r.ended, ret |-> r.ret]
          /\ UNCHANGED <<instVars, memVars, nextObj, chanVars, viewVars, errData,
                         modInput, modCopy, pc, logVars, input_storage>>
          /\ UNCHANGED conduitVars

\* the bytes a channel bound by from() covers
StorageOf(ch) == [a \in 0..(ch.len - 1) |-> heap.mem[ch.store + a]]

\* a Writer over the pointer allocateInputChannel returned writes one byte
PokeInput ==
  \E value \in {7} :
    /\ ~Trapped
    /\ input_storage.some
    /\ steps < MaxCalls
    /\ steps' = steps + 1
    /\ heap' = [heap EXCEPT !.mem[input_storage.ptr] = value]
    /\ last' = [kind |-> "poke", at |-> input_storage.ptr, value |-> value]
    /\ UNCHANGED <<instVars, memVars, nextObj, chanVars, viewVars, errData, modVars, pc,
                   logVars, input_storage, output_storage>>
    /\ UNCHANGED conduitVars

\* getInput() of the module, once a storage exists
StorageGetInput ==
  /\ ~Trapped
  /\ input_storage.some
  /\ steps < MaxCalls
  /\ steps' = steps + 1
  /\ LET r == modGetInput(modInput)
     IN  /\ modInput' = r.global
         /\ modCopy' = [role |-> "in", offset |-> r.ret.offset, store |-> r.ret.store,
                        len |-> r.ret.len, uses |-> 0]
         /\ last' = [kind |-> "modGetInput", ret |-> r.ret]
  /\ UNCHANGED <<instVars, memVars, nextObj, chanVars, viewVars, errData, modOutput, pc,
                 logVars, allocVars>>
  /\ UNCHANGED conduitVars

\* getOutput() of the module, once a storage exists
StorageGetOutput ==
  /\ ~Trapped
  /\ output_storage.some
  /\ steps < MaxCalls
  /\ steps' = steps + 1
  /\ LET r == modGetOutput(modOutput)
     IN  /\ modOutput' = r.global
         /\ modCopy' = [role |-> "out", offset |-> r.ret.offset, store |-> r.ret.store,
                        len |-> r.ret.len, uses |-> 0]
         /\ last' = [kind |-> "modGetOutput", ret |-> r.ret]
  /\ UNCHANGED <<instVars, memVars, nextObj, chanVars, viewVars, errData, modInput, pc,
                 logVars, allocVars>>
  /\ UNCHANGED conduitVars

\* input_reader.read(u8) through the copy getInput() returned
StorageRead ==
  LET r == readUint8([offset |-> modCopy.offset, len |-> modCopy.len], StorageOf(modCopy))
  IN  /\ ~Trapped
      /\ modCopy.role = "in"
      /\ steps < MaxCalls
      /\ steps' = steps + 1
      /\ modCopy' = [modCopy EXCEPT !.offset = r.ch.offset, !.uses = Bump(modCopy.uses)]
      /\ last' = [kind |-> "modRead", nth |-> Bump(modCopy.uses), store |-> modCopy.store,
                  ret |-> r.ret, threw |-> r.threw]
      /\ UNCHANGED <<instVars, memVars, nextObj, chanVars, viewVars, errData, modInput,
                     modOutput, pc, logVars, allocVars>>
      /\ UNCHANGED conduitVars

\* output_writer.write(u8, value) through the copy getOutput() returned
StorageWrite ==
  \E value \in {11} :
    LET r == writeUint8([offset |-> modCopy.offset, len |-> modCopy.len],
                        StorageOf(modCopy), value)
    IN  /\ ~Trapped
        /\ modCopy.role = "out"
        /\ steps < MaxCalls
        /\ steps' = steps + 1
        /\ modCopy' = [modCopy EXCEPT !.offset = r.ch.offset, !.uses = Bump(modCopy.uses)]
        /\ heap' = [heap EXCEPT !.mem = [a \in HeapBytes |->
                      IF a \in modCopy.store..(modCopy.store + modCopy.len - 1)
                      THEN r.mem[a - modCopy.store] ELSE heap.mem[a]]]
        /\ last' = [kind |-> "modWrite", nth |-> Bump(modCopy.uses),
                    store |-> modCopy.store, value |-> value, threw |-> r.threw]
        /\ UNCHANGED <<instVars, memVars, nextObj, chanVars, viewVars, errData, modInput,
                       modOutput, pc, logVars, input_storage, output_storage>>
        /\ UNCHANGED conduitVars

(***************************************************************************)
(* SpecAlloc: the module's channel storage, before and between calls.      *)
(***************************************************************************)
NextAlloc ==
  \/ AllocateInputChannel
  \/ AllocateOutputChannel
  \/ PokeInput
  \/ StorageGetInput
  \/ StorageGetOutput
  \/ StorageRead
  \/ StorageWrite

SpecAlloc == Init /\ [][NextAlloc]_vars

(***************************************************************************)
(* SpecAgree: createInstance of a module whose allocate*Channel are the    *)
(* ones above, then the caller's use of the Instance: getInput, getOutput  *)
(* and further calls of instance.exports.allocate*Channel.                 *)
(***************************************************************************)
\* inputChannelSize and outputChannelSize of the options
AgreeSizes == {<<8, 8>>, <<12, 8>>, <<16, 8>>}

\* createInstance: the module allocates both storages (without running out of
\* memory), the host records the two addresses it returned
BootAgree ==
  \E sz \in AgreeSizes, debug \in BOOLEAN :
    \E atIn \in Answers(sz[1], heap, input_storage) \ {OutOfMemory} :
      LET rin == allocateChannel(sz[1], heap, input_storage, modInput, atIn,
                                 [role |-> "input", size |-> sz[1]], debug)
      IN  \E atOut \in Answers(sz[2], rin.heap, output_storage) \ {OutOfMemory} :
            LET rout == allocateChannel(sz[2], rin.heap, output_storage, modOutput, atOut,
                                        [role |-> "output", size |-> sz[2]], debug)
                c == BootCase(1, 0, 0, 1024, 4096, rin.ret, sz[1], rout.ret, sz[2])
            IN  /\ Bootstrap(c)
                /\ heap' = rout.heap
                /\ input_storage' = rin.storage
                /\ output_storage' = rout.storage
                /\ last' = [kind |-> "createInstance", options |-> c]
                /\ UNCHANGED <<conduitVars, logVars>>

\* instance.exports.allocateInputChannel(sizeInBytes), called by the caller; the
\* call returns
ExportsAllocateInput ==
  /\ phase = "ready"
  /\ AllocateInputChannel
  /\ last'.ended = "returned"

\* instance.exports.allocateOutputChannel(sizeInBytes), called by the caller; the
\* call returns
ExportsAllocateOutput ==
  /\ phase = "ready"
  /\ AllocateOutputChannel
  /\ last'.ended = "returned"

NextAgree ==
  \/ BootAgree
  \/ ExportsAllocateInput
  \/ ExportsAllocateOutput
  \/ GetInput
  \/ GetOutput

SpecAgree == Init /\ [][NextAgree]_vars

(***************************************************************************)
(* SpecReentry: the caller's write function of a bound operation calls     *)
(* getInput() itself (directly, or as the first step of another bound      *)
(* operation) and writes, between two writes of its own.                   *)
(***************************************************************************)
\* the byte the write function writes first, the byte written after the inner
\* getInput(), the byte the write function writes last
OuterFirst == 21
InnerByte == 22
OuterLast == 23

\* writes after the inner getInput(), in one bound operation
MaxInner == 2

\* write(input, ...args) begins: input.writeUint8(OuterFirst)
EncodeBegin ==
  LET r == writeUint8(chanOf(inChan.inst, memBuf), inBytes, OuterFirst)
  IN  /\ pc = "encode"
      /\ inChan' = [inChan EXCEPT !.inst.offset = r.ch.offset]
      /\ inBytes' = r.mem
      /\ pc' = "inside"
      /\ last' = last @@ [outer |-> inChan.inst.obj,
                          inner |-> [gets |-> 0, writes |-> 0, obj |-> 0, cursor |-> 0,
                                     threw |-> FALSE]]
      /\ UNCHANGED <<instVars, memVars, nextObj, outChan, userView, outBytes, errData,
                     held, vret, modVars, steps>>
      /\ UNCHANGED <<conduitVars, sideVars>>

\* inside write(): getInput() of the same Instance
InnerGetInput ==
  LET r == getInput(inChan, memBuf, ByteLength, cfg, nextObj)
  IN  /\ pc = "inside"
      /\ last.inner.gets = 0
      /\ inChan' = r.view
      /\ nextObj' = IF ~r.threw /\ r.ret.obj = nextObj THEN nextObj + 1 ELSE nextObj
      /\ last' = [last EXCEPT !.inner = [gets |-> 1, writes |-> 0, obj |-> r.ret.obj,
                                         cursor |-> r.ret.offset, threw |-> r.threw]]
      /\ UNCHANGED <<instVars, memVars, outChan, userView, inBytes, outBytes, errData,
                     held, vret, modVars, pc, steps>>
      /\ UNCHANGED <<conduitVars, sideVars>>

\* inside write(): a write through the Writer the inner getInput() returned
InnerWrite ==
  LET r == writeUint8(chanOf(inChan.inst, memBuf), inBytes, InnerByte)
  IN  /\ pc = "inside"
      /\ last.inner.gets = 1
      /\ last.inner.writes < MaxInner
      /\ inChan' = [inChan EXCEPT !.inst.offset = r.ch.offset]
      /\ inBytes' = r.mem
      /\ last' = [last EXCEPT !.inner.writes = @ + 1]
      /\ UNCHANGED <<instVars, memVars, nextObj, outChan, userView, outBytes, errData,
                     held, vret, modVars, pc, steps>>
      /\ UNCHANGED <<conduitVars, sideVars>>

\* write() ends: input.writeUint8(OuterLast); the raw call is next
EncodeEnd ==
  LET r == writeUint8(chanOf(inChan.inst, memBuf), inBytes, OuterLast)
      call == [last EXCEPT !.trace = Append(@, Event("encode", last.args))]
  IN  /\ pc = "inside"
      /\ inChan' = [inChan EXCEPT !.inst.offset = r.ch.offset]
      /\ inBytes' = r.mem
      /\ pc' = IF r.threw THEN "idle" ELSE "call"
      /\ last' = IF r.threw THEN Raise(call, NewError(ReachedEnd)) ELSE call
      /\ UNCHANGED <<instVars, memVars, nextObj, outChan, userView, outBytes, errData,
                     held, vret, modVars, steps>>
      /\ UNCHANGED <<conduitVars, sideVars>>

NextReentry ==
  \/ BootCall
  \/ BindStart
  \/ EncodeBegin
  \/ InnerGetInput
  \/ InnerWrite
  \/ EncodeEnd

SpecReentry == Init /\ [][NextReentry]_vars

(***************************************************************************)
(* Properties of handleError (SpecCall).                                   *)
(***************************************************************************)
\* handleError has run: called by the caller, or inside a bound operation
Handled ==
  \/ last.kind = "handleError"
  \/ last.kind = "bound" /\ last.raw.kind # "none"

\* the raw call signalled a failure: a non-zero code or an exception
Failed(raw) == raw.kind = "throw" \/ (raw.kind = "return" /\ raw.code # 0)

\* the positions of the error buffer before its first zero byte
BeforeZero(data) ==
  {i \in 0..(MAX_ERROR_SIZE - 1) : \A j \in 0..i : data[j] # 0}

\* the text the error buffer holds, by the name of its content: the bytes before
\* the first zero byte as code points (a byte that is no UTF-8 reads as U+FFFD)
BufferText ==
  [name \in ErrContents |->
     [i \in 1..Cardinality(BeforeZero(ErrBytes[name])) |->
        IF ErrBytes[name][i - 1] < 128 THEN ErrBytes[name][i - 1] ELSE 65533]]

\* C1: when the raw call returns a non-zero code or raises, and the error buffer
\* holds a non-empty message, handleError raises a new error whose message is
\* the buffer text up to the first zero byte; a captured exception is discarded.
C1_MessagePrecedence ==
  (Handled /\ Failed(last.raw) /\ Len(BufferText[errData]) > 0)
    => /\ last.out.raised
       /\ last.out.err = NewError(BufferText[errData])

\* the raw call threw E1 while the buffer said 'bad': 'bad' was raised
C1_Witness ==
  /\ last.kind = "handleError"
  /\ last.raw.kind = "throw"
  /\ last.raw.exc = "E1"
  /\ errData = "bad"
  /\ last.out.err.message = <<98, 97, 100>>

\* C2 as stated: handleError returns without raising if and only if the raw call
\* returned 0, raised no exception, and the error buffer is empty after the call.
C2_SuccessIffAllThree ==
  Handled =>
    (~last.out.raised <=> /\ last.raw.kind = "return"
                          /\ last.raw.code = 0
                          /\ Len(BufferText[errData]) = 0)

\* C2 amended: handleError returns without raising if and only if the raw call
\* returned 0 and raised no exception, whatever the error buffer holds.
C2_SuccessIffZeroReturn ==
  Handled =>
    (~last.out.raised <=> (last.raw.kind = "return" /\ last.raw.code = 0))

\* a zero return with 'bad' in the error buffer: no error
C2_Witness ==
  /\ last.kind = "handleError"
  /\ last.raw.kind = "return"
  /\ last.raw.code = 0
  /\ errData = "bad"
  /\ ~last.out.raised

\* C3: when the raw call returns a non-zero code without raising and the first
\* byte of the error buffer is zero, handleError raises 'Unknown error'.
C3_UnknownError ==
  (Handled /\ last.raw.kind = "return" /\ last.raw.code # 0 /\ ErrBytes[errData][0] = 0)
    => /\ last.out.raised
       /\ last.out.err = NewError(UnknownError)

\* a non-zero return while the buffer starts with a zero byte and holds an
\* earlier text after it
C3_Witness ==
  /\ last.kind = "handleError"
  /\ last.raw.kind = "return"
  /\ last.raw.code = 1
  /\ errData = "stale"
  /\ last.out.err.message = UnknownError

\* C4: when the raw call raises an exception object and the error buffer is
\* empty, handleError re-raises that very object: no new error, no 'Unknown
\* error'.
C4_RethrowsOriginal ==
  (/\ Handled
   /\ last.raw.kind = "throw"
   /\ last.raw.exc # "undefined"
   /\ ErrBytes[errData][0] = 0)
    => /\ last.out.raised
       /\ last.out.err = Rethrown(last.raw.exc)
       /\ last.out.err.type # "Error"

\* the raw call threw E1 inside a bound operation with an empty buffer, and the
\* caller of the bound operation got E1
C4_Witness ==
  /\ last.kind = "bound"
  /\ last.raw.kind = "throw"
  /\ last.raw.exc = "E1"
  /\ errData = "empty"
  /\ last.err = Rethrown("E1")

(***************************************************************************)
(* Properties of the bound operation (SpecCall).                           *)
(***************************************************************************)
\* the steps a bound operation has taken
Steps(call) == {call.trace[i].ev : i \in DOMAIN call.trace}

\* the bytes each of the caller's write functions needs
Needs(enc) == CASE enc = "u32" -> 4 [] enc = "u8" -> 1 [] enc = "array" -> 16

\* C5: a bound operation that returns has, in this order and each once, obtained
\* the input channel at cursor 0, encoded the arguments, run handleError around
\* one raw call, obtained the output channel at cursor 0 and decoded with the
\* same arguments; it returns what decode returned (here the u32 the module left
\* at the start of the output region plus the argument).
C5_BoundOrder ==
  (last.kind = "bound" /\ last.status = "returned")
    => /\ last.trace = <<Event("getInput", <<0>>), Event("encode", last.args),
                         Event("handleError", <<>>), Event("func", <<>>),
                         Event("getOutput", <<0>>), Event("decode", last.args)>>
       /\ last.dec = "u32plus"
       /\ last.result = ElemAt(outBytes, 0, 4) + last.args[1]
       /\ last.enc = "u32" => ElemAt(inBytes, 0, 4) = last.args[1]

\* bound(300) with the array encoder returned 311
C5_Witness ==
  /\ last.kind = "bound"
  /\ last.status = "returned"
  /\ last.enc = "array"
  /\ last.args = <<300>>
  /\ last.result = 311

\* C6: a bound operation never swallows an error: when encode needs more than
\* the input channel holds, the bounds error reaches the caller and neither the
\* raw call nor decode runs; when the raw call fails, the error of handleError
\* reaches the caller and decode does not run; an operation that raised
\* returned no result.
C6_NeverSwallows ==
  (last.kind = "bound" /\ last.status # "running")
    => /\ last.status \in {"raised", "returned"}
       /\ ("encode" \in Steps(last) /\ Needs(last.enc) > cfg.inSize)
            => /\ last.status = "raised"
               /\ last.err = NewError(ReachedEnd)
               /\ Steps(last) = {"getInput", "encode"}
       /\ ("func" \in Steps(last) /\ Failed(last.raw))
            => /\ last.status = "raised"
               /\ last.err = last.out.err
               /\ last.err # NoError
               /\ Steps(last) = {"getInput", "encode", "handleError", "func"}
       /\ last.status = "raised" => (last.err # NoError /\ last.result = 0)
       /\ last.status = "returned" => last.err = NoError

\* the array encoder ran into the end of an 8-byte input channel
C6_Witness ==
  /\ last.kind = "bound"
  /\ last.status = "raised"
  /\ last.enc = "array"
  /\ cfg.inSize = 8
  /\ last.err = NewError(ReachedEnd)
  /\ Len(last.trace) = 2

(***************************************************************************)
(* Properties of the channels of an Instance (SpecChan).                   *)
(***************************************************************************)
\* C7: every retrieval through getInput / getOutput, on the host and in the
\* module, returns the live channel with cursor 0; the first write or read
\* after a retrieval acts at offset 0 of the region, whatever came before.
C7_RetrievalResets ==
  /\ (last.kind = "getInput" /\ ~last.threw)
       => /\ last.ret.offset = 0
          /\ last.ret.over = memBuf
          /\ last.ret = inChan.inst
  /\ (last.kind = "getOutput" /\ ~last.threw)
       => /\ last.ret.offset = 0
          /\ last.ret.over = memBuf
          /\ last.ret = outChan.inst
  /\ last.kind = "modGetInput"
       => /\ last.ret = [offset |-> 0, store |-> cfg.inputPtr]
          /\ modInput = last.ret
  /\ last.kind = "modGetOutput"
       => /\ last.ret = [offset |-> 0, store |-> cfg.outputPtr]
          /\ modOutput = last.ret
  /\ (last.kind = "write" /\ last.nth = 1 /\ ~last.threw)
       => ElemAt(inBytes, 0, last.w) = last.value
  /\ (last.kind = "read" /\ last.nth = 1 /\ ~last.threw)
       => last.ret = ElemAt(outBytes, 0, IF last.op = "readUint8" THEN 1 ELSE 4)
  /\ (last.kind = "modWrite" /\ last.nth = 1 /\ ~last.threw)
       => outBytes[0] = last.value
  /\ (last.kind = "modRead" /\ last.nth = 1 /\ ~last.threw)
       => last.ret = inBytes[0]

\* getInput, writeUint32(258), getInput, writeUint8(9): the 9 lies over the low
\* byte of the 258
C7_Witness ==
  /\ last.kind = "write"
  /\ last.nth = 1
  /\ last.value = 9
  /\ ~last.threw
  /\ inBytes[0] = 9
  /\ inBytes[1] = 1

(***************************************************************************)
(* Properties of createInstance and createView (Spec).                     *)
(***************************************************************************)
\* C8: an accessor of createView returns the same object on consecutive calls
\* while the memory's buffer is the same, a new object on the first call after
\* the buffer changed, and never an object built over a buffer other than the
\* memory's current one.
C8_ViewOverCurrentBuffer ==
  /\ vret.n >= 1 => vret.over = vret.buf
  /\ (vret.n >= 2 /\ vret.prevBuf = vret.buf) => vret.obj = vret.prevObj
  /\ (vret.n >= 2 /\ vret.prevBuf # vret.buf) => vret.obj # vret.prevObj

\* the largest of a set of numbers
MaxOf(ends) == CHOOSE m \in ends : \A e \in ends : e <= m

\* the end of the farthest of the four regions
RegionsEnd ==
  MaxOf({cfg.inputPtr + cfg.inSize, cfg.outputPtr + cfg.outSize,
         cfg.logPtr + MAX_LOG_SIZE, cfg.errPtr + MAX_ERROR_SIZE})

\* C9: after createInstance the memory covers the four regions; createInstance
\* grew it only when it was smaller than they need, and then by the ceiling of
\* the missing bytes in pages; the memory never gets smaller.
C9_MemoryCoversRegions ==
  phase = "ready"
    => /\ ByteLength >= RegionsEnd
       /\ boot.grown >= 0
       /\ boot.grown > 0
            => /\ boot.before < RegionsEnd
               /\ (boot.grown - 1) * PAGE_SIZE < RegionsEnd - boot.before
               /\ RegionsEnd - boot.before <= boot.grown * PAGE_SIZE
       /\ boot.grown = 0 => boot.before >= RegionsEnd
       /\ boot.before >= boot.created * PAGE_SIZE
       /\ ByteLength = boot.before + (boot.grown + memGrows) * PAGE_SIZE

\* createInstance grew a memory of two pages by two pages
C9_Witness ==
  /\ phase = "ready"
  /\ boot.grown = 2
  /\ boot.before = 2 * PAGE_SIZE
  /\ memPages = 4

(***************************************************************************)
(* Properties of the side buffers and the log hook (SpecLog).              *)
(***************************************************************************)
\* the place of the first zero byte of a buffer of `size` bytes: the least
\* index that holds a zero, or `size` when no byte is zero
FirstZero(data, size) ==
  LET zeros == {i \in 0..(size - 1) : data[i] = 0}
  IN  IF zeros = {} THEN size ELSE CHOOSE z \in zeros : \A y \in zeros : z <= y

\* the bytes of a buffer before its first zero byte, as text
TextBefore(data, size) ==
  LET n == FirstZero(data, size)
      text == [i \in 1..n |-> IF data[i - 1] < 128 THEN data[i - 1] ELSE 65533]
  IN  SubSeq(text, 1, n)

\* the text of the log buffer, by the history that made its content
LogText == [h \in Histories |-> LET data == LogStorage[h] IN TextBefore(data, MAX_LOG_SIZE)]

\* the hook ran hostLog to its end in the last step
Forwarded ==
  /\ last.kind \in {"createInstance", "log", "fill"}
  /\ last.hook.forwarded = 1

\* C15: the message read from a side buffer is exactly the bytes before the
\* buffer's first zero byte; when no byte of the buffer is zero the message is
\* the whole buffer (MAX_LOG_SIZE, MAX_ERROR_SIZE bytes) and reading it raises
\* no error of its own: the log message is forwarded, the error message is
\* what handleError raises.
C15_MessageUpToFirstZero ==
  /\ Forwarded =>
       /\ sink.message = LogText[logHist]
       /\ ~last.hook.raised
       /\ FirstZero(LogStorage[logHist], MAX_LOG_SIZE) = MAX_LOG_SIZE
            => Len(sink.message) = MAX_LOG_SIZE
  /\ (Handled /\ Failed(last.raw) /\ Len(BufferText[errData]) > 0) =>
       /\ last.out.err = NewError(BufferText[errData])
       /\ FirstZero(ErrBytes[errData], MAX_ERROR_SIZE) = MAX_ERROR_SIZE
            => Len(last.out.err.message) = MAX_ERROR_SIZE

\* both buffers were read without a zero byte in them: the log sink got 2048
\* bytes and handleError raised a message of 256
C15_Witness ==
  /\ last.kind = "handleError"
  /\ errData = "full"
  /\ last.out.raised
  /\ Len(last.out.err.message) = 256
  /\ Len(logHist) = 1
  /\ logHist[1].op = "fill"
  /\ sink.calls = 1
  /\ Len(sink.message) = 2048

\* C16: whenever the module calls the hook after it was put into the import
\* set, during instantiation and the four bootstrap calls included, the host
\* forwards the decoded message to the log sink exactly once and the call of
\* the hook does not raise.
C16_HookNeverFails ==
  (last.kind \in {"createInstance", "log", "fill"} /\ last.hook.at # "none") =>
    /\ ~last.hook.raised
    /\ last.hook.forwarded = 1
    /\ sink.calls = last.before + 1
    /\ sink.message = LogText[logHist]

\* the first min(len, 2047) bytes of each message, as the text the sink is to get
Delivered ==
  [k \in MsgKeys |->
     LET msg == MsgTable[k]
     IN  SubSeq(msg, 1, IF k.n <= 2047 THEN k.n ELSE 2047)]

\* the log buffer begins with the delivered bytes of the last message of h and
\* a zero byte after them
HoldsLast ==
  [h \in Histories \ {<<>>} |->
     LET data == LogStorage[h]
         text == Delivered[IF h[Len(h)].op = "log" THEN h[Len(h)] ELSE LogItem("log", 3, 0)]
     IN  /\ \A i \in 1..Len(text) : data[i - 1] = text[i]
         /\ data[Len(text)] = 0]

\* C17: for a message without a zero byte, log(msg) leaves the first
\* min(len(msg), 2047) bytes of msg and a zero byte after them in the log
\* buffer and calls the hook once; the log sink gets exactly those bytes.
C17_LogDelivered ==
  (last.kind = "log" /\ last.msg.z = 0) =>
    /\ HoldsLast[logHist]
    /\ last.hook.at = "call"
    /\ sink.calls = last.before + 1
    /\ sink.message = Delivered[last.msg]

\* after a full buffer of 'a', a message of 2048 bytes was logged: 2047 arrived
C17_Witness ==
  /\ last.kind = "log"
  /\ last.msg.n = 2048
  /\ Len(logHist) = 2
  /\ logHist[1].op = "fill"
  /\ sink.calls = 2
  /\ Len(sink.message) = 2047
  /\ sink.message[2047] = 97 + (2047 % 3)

(***************************************************************************)
(* Properties of the import set (SpecBoot).                                *)
(***************************************************************************)
\* the imports of the caller of the last createInstance
Given == last.imports

Booted == last.kind = "createInstance"

\* C20: the import set passed to instantiate holds every binding of the
\* caller unchanged (its top-level namespaces by identity, every key of its
\* env with the caller's value) and env.memory and env.hostLog of the host;
\* no binding of the caller is clobbered.
C20_NothingClobbered ==
  Booted =>
    /\ \A n \in Given.top : n.name # "env" => n \in finalImports.top
    /\ \A b \in Given.env : b \in finalImports.env
    /\ Key("memory", "memory") \in finalImports.env
    /\ Key("hostLog", "wrapper") \in finalImports.env

\* C20 (amended): every namespace of the caller other than env is passed by
\* identity; env is a new object that holds the caller's env keys other than
\* memory and hostLog with the caller's values, and memory and hostLog of the
\* host, which replace a memory or hostLog of the caller's env; each key is
\* bound once.
C20_HostKeysWin ==
  Booted =>
    /\ \A n \in Given.top : n.name # "env" => n \in finalImports.top
    /\ \A n \in finalImports.top : n.name # "env" => n \in Given.top
    /\ Ns("env", "env") \in finalImports.top
    /\ \A n \in finalImports.top : n.name = "env" => n.obj = "env"
    /\ \A b \in Given.env : b.key \notin {"memory", "hostLog"} => b \in finalImports.env
    /\ \A b \in finalImports.env : b.key \notin {"memory", "hostLog"} => b \in Given.env
    /\ \A b \in finalImports.env : b.key = "memory" => b.value = "memory"
    /\ \A b \in finalImports.env : b.key = "hostLog" => b.value = "wrapper"
    /\ Key("memory", "memory") \in finalImports.env
    /\ Key("hostLog", "wrapper") \in finalImports.env

\* the caller gave a wasi namespace and env.foo, as in the test: both arrived
C20_Witness ==
  /\ Booted
  /\ phase = "ready"
  /\ Given = Imports({Ns("wasi_snapshot_preview1", "W1"), Ns("env", "E1")}, {Key("foo", "1")})
  /\ finalImports.top = {Ns("wasi_snapshot_preview1", "W1"), Ns("env", "env")}
  /\ finalImports.env = {Key("foo", "1"), Key("memory", "memory"), Key("hostLog", "wrapper")}

(***************************************************************************)
(* Properties of the module's channel storage (SpecAlloc).                 *)
(***************************************************************************)
\* the least multiple of 8 that is no less than size
Multiple8(size) ==
  CHOOSE m \in 0..(size + 8) : m % 8 = 0 /\ m >= size /\ \A k \in size..(m - 1) : k % 8 # 0

BlocksOf(role) == {at \in Places : heap.blocks[at].role = role}

\* one live block, the newest; every earlier one freed once; the channel over it
RoleHolds(role, storage, chan) ==
  IF storage.some
  THEN /\ storage.ptr \in BlocksOf(role)
       /\ \A at \in BlocksOf(role) :
            heap.blocks[at].freed = (IF at = storage.ptr THEN 0 ELSE 1)
       /\ storage.len = heap.blocks[storage.ptr].words
       /\ chan.store = storage.ptr
       /\ chan.offset = 0
       /\ chan.len = Multiple8(heap.blocks[storage.ptr].size)
  ELSE BlocksOf(role) = {}

\* C18: after successful calls of allocateInputChannel / allocateOutputChannel
\* each role has exactly one live block, the one returned last (every earlier
\* block of the role was freed exactly once), the role's channel is bound to
\* that address with cursor 0 and a capacity of the size asked for last,
\* rounded up to a multiple of 8, and getInput() / getOutput() return a
\* channel that reads or writes that storage.
C18_OneLiveBlockPerRole ==
  ~Trapped =>
    /\ RoleHolds("input", input_storage, modInput)
    /\ RoleHolds("output", output_storage, modOutput)
    /\ (last.kind = "allocateInputChannel" =>
          last.ret = input_storage.ptr /\ last.ret # 0)
    /\ (last.kind = "allocateOutputChannel" =>
          last.ret = output_storage.ptr /\ last.ret # 0)
    /\ (last.kind = "modGetInput" =>
          /\ last.ret.offset = 0
          /\ last.ret.store = input_storage.ptr
          /\ last.ret.len = 8 * input_storage.len)
    /\ (last.kind = "modGetOutput" =>
          /\ last.ret.offset = 0
          /\ last.ret.store = output_storage.ptr
          /\ last.ret.len = 8 * output_storage.len)
    /\ ((last.kind = "modRead" /\ last.nth = 1 /\ last.store = input_storage.ptr) =>
          ~last.threw /\ last.ret = heap.mem[input_storage.ptr])
    /\ ((last.kind = "modWrite" /\ last.nth = 1 /\ last.store = output_storage.ptr) =>
          ~last.threw /\ heap.mem[output_storage.ptr] = last.value)

\* the input storage was replaced, a byte was written at the address returned
\* last, and getInput() then read it
C18_Witness ==
  /\ \E at \in BlocksOf("input") : heap.blocks[at].freed = 1
  /\ last.kind = "modRead"
  /\ last.nth = 1
  /\ last.store = input_storage.ptr
  /\ last.ret = 7

\* C19: allocateInputChannel / allocateOutputChannel called with
\* sizeInBytes <= 0 ends in the fatal diagnostic and returns no address, and
\* nothing was released or replaced by then: the heap, both storages and both
\* channels are as they were before the call.
C19_RefusedSizeChangesNothing ==
  [][(/\ last'.kind \in {"allocateInputChannel", "allocateOutputChannel"}
      /\ last'.size <= 0)
     => /\ last'.ended = "panic"
        /\ last'.ret = 0
        /\ UNCHANGED <<heap, input_storage, output_storage, modInput, modOutput>>]_vars

\* a size of 0 or less was refused while the role had a storage
C19_Witness ==
  /\ Trapped
  /\ last.size <= 0
  /\ \/ last.kind = "allocateInputChannel" /\ input_storage.some
     \/ last.kind = "allocateOutputChannel" /\ output_storage.some

(***************************************************************************)
(* Properties of createInstance and the module's exports (Spec).           *)
(***************************************************************************)
\* how often createInstance called the export `name`
CallsOf(name) == Cardinality({i \in DOMAIN boot.calls : boot.calls[i][1] = name})

\* the argument of the call of `name`
ArgOf(name) == boot.calls[CHOOSE i \in DOMAIN boot.calls : boot.calls[i][1] = name][2]

\* C21: when the instantiation of the module fails, createInstance fails with
\* it and there is no Instance: no export was called and the memory was not
\* grown.  When createInstance succeeds, getLogPtr, getErrorPtr,
\* allocateInputChannel and allocateOutputChannel were each called exactly
\* once, the two allocate calls with the caller's input and output size.
C21_ExportsCalledOnce ==
  /\ last.kind = "instantiateFailed" =>
       /\ phase = "failed"
       /\ boot.calls = <<>>
       /\ boot.grown = 0
       /\ memPages = last.options.pages
       /\ inChan = NoView /\ outChan = NoView /\ cfg = NoCfg
  /\ last.kind = "createInstance" =>
       /\ phase = "ready"
       /\ \A name \in {"getLogPtr", "getErrorPtr", "allocateInputChannel",
                       "allocateOutputChannel"} : CallsOf(name) = 1
       /\ Len(boot.calls) = 4
       /\ ArgOf("allocateInputChannel") = last.options.inSize
       /\ ArgOf("allocateOutputChannel") = last.options.outSize

\* createInstance succeeded with an input size that differs from the output size
C21_Witness ==
  /\ last.kind = "createInstance"
  /\ phase = "ready"
  /\ last.options.inSize = 16
  /\ last.options.outSize = 8
  /\ boot.calls[3] = <<"allocateInputChannel", 16>>

(***************************************************************************)
(* Properties of the cursor of a channel (SpecCursor).                     *)
(***************************************************************************)
\* C22: the cursor of a Writer or Reader whose capacity is a multiple of 8 is
\* never below 0 and never above the capacity, whatever reads, writes, array
\* operations and resets were made and whichever of them failed.
C22_CursorWithinCapacity ==
  \A ch \in {wr, rd} :
    ch.len % 8 = 0 => (0 <= ch.offset /\ ch.offset <= ch.len)

\* a write of 8 bytes failed from an unaligned cursor and left the cursor at the
\* capacity
C22_Witness ==
  /\ clast.op = "writeFloat64"
  /\ clast.threw
  /\ clast.pre % 8 # 0
  /\ wr.offset = wr.len

C28_FailedScalarChangesNothing ==
  [][(/\ clast'.op \in {s.op : s \in ScalarWrites \cup ScalarReads}
      /\ clast'.threw)
     => /\ wr' = wr
        /\ rd' = rd
        /\ cmem' = cmem]_vars

(***************************************************************************)
(* Properties of a reentrant use of the input channel (SpecReentry).       *)
(***************************************************************************)
\* C24: nothing prevents a reentrant use of the shared input channel.  When
\* the write function of a bound operation calls getInput() (directly or
\* through another bound operation), the call succeeds, returns the Writer the
\* outer operation is writing through, with its cursor back at 0, and what is
\* then written overwrites the outer operation's message from its first byte:
\* the raw call of the outer operation finds the inner bytes where the outer
\* message should begin.  Without the reentrant call the message is intact.
C24_ReentryOverwritesInput ==
  pc \in {"inside", "call"} =>
    /\ last.inner.gets = 1 =>
         /\ ~last.inner.threw
         /\ last.inner.obj = last.outer
         /\ last.inner.cursor = 0
         /\ last.inner.writes >= 1 => inBytes[0] = InnerByte
         /\ pc = "call" =>
              /\ inChan.inst.offset = last.inner.writes + 1
              /\ inBytes[last.inner.writes] = OuterLast
    /\ (last.inner.gets = 0 /\ pc = "call") =>
         /\ inBytes[0] = OuterFirst
         /\ inBytes[1] = OuterLast
         /\ inChan.inst.offset = 2

\* the raw call is about to run on the bytes of the inner writes followed by
\* the last byte of the outer message
C24_Witness ==
  /\ pc = "call"
  /\ last.inner.gets = 1
  /\ last.inner.writes = 2
  /\ inBytes[0] = InnerByte
  /\ inBytes[1] = InnerByte
  /\ inBytes[2] = OuterLast

\* C25 as stated: allocating the input channel makes a fresh Writer over the new
\* storage, allocating the output channel a fresh Reader.
C25_InputWriterOutputReader ==
  ~Trapped =>
    /\ input_storage.some =>
         /\ modInput.class = "Writer"
         /\ modInput.store = input_storage.ptr /\ modInput.offset = 0
    /\ output_storage.some =>
         /\ modOutput.class = "Reader"
         /\ modOutput.store = output_storage.ptr /\ modOutput.offset = 0

\* C25: on the module side, allocating the input channel makes a fresh Reader
\* over the new storage (the module reads its input), allocating the output
\* channel a fresh Writer over the new storage (the module writes its output);
\* getInput() returns the Reader, getOutput() the Writer.
C25_InputReaderOutputWriter ==
  ~Trapped =>
    /\ input_storage.some =>
         /\ modInput.class = "Reader"
         /\ modInput.store = input_storage.ptr /\ modInput.offset = 0
    /\ output_storage.some =>
         /\ modOutput.class = "Writer"
         /\ modOutput.store = output_storage.ptr /\ modOutput.offset = 0
    /\ last.kind = "modGetInput" => last.ret.class = "Reader"
    /\ last.kind = "modGetOutput" => last.ret.class = "Writer"

\* both channels were allocated, the output channel last
C25_Witness ==
  /\ last.kind = "allocateOutputChannel"
  /\ last.ended = "returned"
  /\ input_storage.some
  /\ modInput.class = "Reader"
  /\ modOutput.class = "Writer"
  /\ modOutput.store = last.ret

(***************************************************************************)
(* Properties of the host's and the module's view of the channels          *)
(* (SpecAgree).                                                            *)
(***************************************************************************)
\* the host's base address of a role is the module's live storage of the role
AgreesOn(ptr, storage) ==
  /\ storage.some
  /\ ptr = storage.ptr
  /\ heap.blocks[ptr].freed = 0

\* C26 as stated: in every state reachable through the Instance, further calls
\* of exports.allocateInputChannel / allocateOutputChannel included, the base
\* address of the host's input Writer and output Reader is the module's live
\* storage of that role; the host builds no channel over released storage.
C26_AddressesAlwaysAgree ==
  phase = "ready" =>
    /\ AgreesOn(cfg.inputPtr, input_storage)
    /\ AgreesOn(cfg.outputPtr, output_storage)

\* What holds of the addresses (C26): the host's two base addresses are the
\* ones the module returned during createInstance and never change afterwards.  They are the module's live
\* storage when createInstance returns and stay so over every step that is
\* not a later call of exports.allocateInputChannel (for the input channel)
\* or exports.allocateOutputChannel (for the output channel); such a call
\* leaves the host's address as it was, whatever address the module returns.
C26_AddressesAgreeUntilReallocated ==
  [][/\ last'.kind = "createInstance" =>
          /\ AgreesOn(cfg.inputPtr, input_storage)'
          /\ AgreesOn(cfg.outputPtr, output_storage)'
     /\ phase = "ready" =>
          /\ cfg' = cfg
          /\ (AgreesOn(cfg.inputPtr, input_storage)
              /\ last'.kind # "allocateInputChannel")
               => AgreesOn(cfg.inputPtr, input_storage)'
          /\ (AgreesOn(cfg.outputPtr, output_storage)
              /\ last'.kind # "allocateOutputChannel")
               => AgreesOn(cfg.outputPtr, output_storage)']_vars

\* after a later allocateInputChannel moved the module's input storage, the
\* host's getInput() built its Writer over the released block
C26_Witness ==
  /\ last.kind = "getInput"
  /\ ~last.threw
  /\ input_storage.ptr # cfg.inputPtr
  /\ heap.blocks[cfg.inputPtr].freed = 1
  /\ heap.blocks[cfg.inputPtr].role = "input"

\* C27: for every positive inputChannelSize / outputChannelSize, a multiple of
\* 8 or not, after createInstance the host's getInput() / getOutput() return a
\* channel whose capacity is the capacity of the module's storage of that role
\* (the size rounded up to a multiple of 8).
C27_CapacitiesAgree ==
  /\ last.kind = "getInput" =>
       /\ ~last.threw
       /\ AgreesOn(cfg.inputPtr, input_storage) => last.ret.len = 8 * input_storage.len
  /\ last.kind = "getOutput" =>
       /\ ~last.threw
       /\ AgreesOn(cfg.outputPtr, output_storage) => last.ret.len = 8 * output_storage.len

\* C29: handleError writes no byte of the error buffer.  When handleError(func)
\* is over, on each of its outcomes (returns, throws the buffer's message,
\* rethrows the caught value, throws 'Unknown error'), the buffer holds what
\* func() left there; when func() left the buffer as it was, the buffer is what
\* it was before the call, and a call that fails reports the message that was
\* there before it.
C29_HandleErrorKeepsBuffer ==
  [][(last' # last /\ last'.kind = "handleError") =>
       /\ errData' = last'.func
       /\ last'.func = errData =>
            /\ errData' = errData
            /\ last'.out = handleErrorOf[last'.raw, errData]
            /\ (last'.out.raised /\ Len(BufferText[errData]) > 0) =>
                 last'.out.err = NewError(BufferText[errData])]_vars

\* a failed call left 'bad' in the buffer; the next call returned non-zero, its
\* func() wrote nothing there, and it threw Error('bad'); the buffer still
\* holds 'bad'
C29_Witness ==
  /\ last.kind = "handleError"
  /\ last.kept
  /\ last.func = "bad"
  /\ last.raw.kind = "return"
  /\ last.raw.code = 1
  /\ last.out.raised
  /\ last.out.err = NewError(<<98, 97, 100>>)
  /\ errData = "bad"

\* the module wrote the log region through log and logf only
ThroughLog(h) == \A i \in 1..Len(h) : h[i].op \in {"log", "logf"}

\* the last byte of the log region, by the history that made it
LastLogByte == [h \in Histories |-> LET data == LogStorage[h] IN data[MAX_LOG_SIZE - 1]]

\* C30: the module's log buffer is always terminated.  After any sequence of
\* log(msg) and logf(fmt, args) calls, with messages shorter than the buffer,
\* of 2047 bytes, or of 2048 bytes (bufPrint fails with NoSpaceLeft), byte 2047
\* of the log buffer is zero, so the message the host reads ends at a
\* terminator and is shorter than the whole buffer.
C30_LogBufferTerminated ==
  (phase = "ready" /\ ThroughLog(logHist)) =>
    /\ LastLogByte[logHist] = 0
    /\ Len(LogMessage[logHist]) <= MAX_LOG_SIZE - 1

\* logf with an output of 2048 bytes, after log of 2048 bytes: the host read
\* 2047 bytes and forwarded them
C30_Witness ==
  /\ last.kind = "logf"
  /\ last.msg.n = MAX_LOG_SIZE
  /\ Len(logHist) = 2
  /\ logHist[1] = LogItem("log", MAX_LOG_SIZE, 0)
  /\ ThroughLog(logHist)
  /\ last.hook.forwarded = 1
  /\ Len(LogMessage[logHist]) = MAX_LOG_SIZE - 1

====
